---- MODULE Spec2Model ----
(***************************************************************************)
(* Matchstick Empire: the game-state store (stores/gameState.ts) and the   *)
(* services that mutate it (production, market, automation, achievements). *)
(*                                                                         *)
(* Numbers.  matchsticks, totalProduced and totalSold are bigints and are  *)
(* modelled as integers.  money, prices and revenue are JavaScript numbers *)
(* and are modelled in fixed point, in cents; manualRate is kept in        *)
(* tenths, every multiplier in hundredths.                                 *)
(* SafeBigInt.MAX_SAFE is 2^1000 - 1 in the source; the model keeps the    *)
(* same clamp at 2^MaxSafeBits - 1 so that TLC's integers can hold it.     *)
(***************************************************************************)
EXTENDS Integers, Sequences, FiniteSets, TLC

\* ------------------------------------------------------------- bounds
\* Exponent standing for the source's 1000 in MAX_SAFE = 2^1000 - 1.
MaxSafeBits == 17
\* Operations per run of the ledger specification.
MaxLedgerOps == 3
\* Operations per run of the play and load specifications.
MaxOps == 3
\* Operations per run of the shop specification.
MaxShopOps == 4
\* saveGame calls per run of the storage specification, and its loads and
\* imports.
MaxSaves == 2
MaxStorageOps == 2
\* Events emitted per run of the event log specification.
MaxEvents == 102
\* Operations per run of the store specification.
MaxStoreOps == 3
\* Operations and timer callbacks per run of the automation ticks specification.
MaxTickOps == 5
\* Calls per run of the temporary multipliers specification.
MaxBoostOps == 3
\* Operations per run of the maintenance specification, the first
\* MaxPurchases of which may be purchases.
MaxMaintenanceOps == 23
MaxPurchases == 3
\* Operations per run of the market specification.
MaxMarketOps == 3
\* Operations and timer callbacks per run of the prices specification.
MaxPriceOps == 3
\* Calls per run of the arithmetic specification, and the largest smaller
\* factor of a product it forms.
MaxNumberOps == 2
MaxFactor == 4096
\* Produce calls per run of the combo specification (maxCombo is 50).
MaxClicks == 53
\* The clock runs from StartTime to StartTime + MaxElapsed milliseconds.
MaxElapsed == 3000

Max2(a, b) == IF a >= b THEN a ELSE b
Min2(a, b) == IF a <= b THEN a ELSE b

\* --------------------------------------------------------- SafeBigInt
MAX_SAFE == 2 ^ MaxSafeBits - 1

SafeBigInt_add(a, b) ==
    LET result == a + b IN IF result > MAX_SAFE THEN MAX_SAFE ELSE result

SafeBigInt_subtract(a, b) ==
    LET result == a - b IN IF result < 0 THEN 0 ELSE result

\* A product that is not cut to MAX_SAFE.
SafeBigInt_multiplyUnclamped(a, b) == a * b

\* a * b of two bigints in [0, MAX_SAFE] does not throw, so the catch of
\* multiply is not taken.
SafeBigInt_multiply(a, b) ==
    LET result == a * b IN IF result > MAX_SAFE THEN MAX_SAFE ELSE result

\* The quotient of two bigints is cut towards zero.
SafeBigInt_divide(a, b) == IF b = 0 THEN 0 ELSE a \div b

SafeBigInt_compare(a, b) == IF a < b THEN -1 ELSE IF a > b THEN 1 ELSE 0

SafeBigInt_isSafe(value) == value <= MAX_SAFE /\ value >= 0


\* ------------------------------------------------------------ state
VARIABLES
    gameState,      \* the gameState store: resources, production, market, ...
    clickCombo,     \* ProductionService.clickCombo: count and multiplier
    lastClickTime,  \* ProductionService.lastClickTime
    achievements,   \* AchievementService.achievements: id -> unlocked flag
    facilityConfigs,\* AutomationService.facilityConfigs: id -> owned, efficiency
    now,            \* Date.now()
    ops,            \* operations performed so far in this run
    ret,            \* the operation performed last, its input and what it returned
    rewardCount,    \* history: id -> how many times its reward was credited
    loadedUnlocked, \* history: the unlocked ids of the snapshot loaded last
    synced,         \* history: syncWithGameState ran after the last load
    recentTrades,   \* MarketService.recentTrades, newest first
    gameEvents,     \* the gameEvents store, newest first
    db,             \* the Dexie database: the saves, settings and achievements tables
    saving,         \* GameStorageService.saveGame calls in flight, by caller
    saveCount,      \* saveGame calls started so far: the ids generated
    saved,          \* history: save id -> the state given to saveGame and the record put
    intervals,      \* AutomationService: the interval handles that are set
    ticks,          \* the automation ticks suspended at an await, by interval
    timeouts        \* the setTimeout callbacks armed: multiplier id and due time

vars == <<gameState, clickCombo, lastClickTime, achievements, facilityConfigs,
          now, ops, ret, rewardCount, loadedUnlocked, synced,
          recentTrades, gameEvents, db, saving, saveCount, saved,
          intervals, ticks, timeouts>>

serviceVars == <<clickCombo, lastClickTime, achievements, facilityConfigs>>
historyVars == <<rewardCount, loadedUnlocked, synced>>
storageVars == <<db, saving, saveCount, saved>>
timerVars == <<intervals, ticks, timeouts>>

\* ---------------------------------------------------------- catalogs
\* AchievementService.initializeAchievements, in the order of the source.
\* value: the threshold (money thresholds in cents); reward: money, in cents.
achievementDefs == <<
    [id |-> "first_match",         type |-> "resource_total", stat |-> "matchsticks",
     value |-> 1,     reward |-> 1000],
    [id |-> "first_hundred",       type |-> "resource_total", stat |-> "matchsticks",
     value |-> 100,   reward |-> 5000],
    [id |-> "thousand_matches",    type |-> "resource_total", stat |-> "matchsticks",
     value |-> 1000,  reward |-> 20000],
    [id |-> "first_sale",          type |-> "stat_threshold", stat |-> "totalSold",
     value |-> 1,     reward |-> 2500],
    [id |-> "merchant_apprentice", type |-> "stat_threshold", stat |-> "totalRevenue",
     value |-> 10000, reward |-> 5000],
    [id |-> "bulk_trader",         type |-> "stat_threshold", stat |-> "totalSold",
     value |-> 1000,  reward |-> 10000],
    [id |-> "automation_investor", type |-> "stat_threshold", stat |-> "totalAutomationSpent",
     value |-> 50000, reward |-> 7500],
    [id |-> "clicker_collector",   type |-> "stat_threshold", stat |-> "totalAutoClickers",
     value |-> 10,    reward |-> 10000],
    [id |-> "automation_phase",    type |-> "phase_reached",  stat |-> "automation",
     value |-> 0,     reward |-> 15000] >>

AchievementIds == { achievementDefs[i].id : i \in DOMAIN achievementDefs }

\* AutomationService.autoClickerConfigs.  costMultiplier is the fraction
\* costNum / costDen (1.15 = 23/20, 1.2 = 6/5, 1.25 = 5/4, 1.3 = 13/10), baseCost
\* is in units of money, reqTotalRevenue in cents; a requirement of 0 is an
\* absent one.
autoClickerConfigs == <<
    [id |-> "basic_clicker",   baseCost |-> 50,   costNum |-> 23, costDen |-> 20,
     baseClicksPerSecond |-> 1,  maxLevel |-> 50,
     reqTotalProduced |-> 0,      reqTotalRevenue |-> 0],
    [id |-> "fast_clicker",    baseCost |-> 250,  costNum |-> 6,  costDen |-> 5,
     baseClicksPerSecond |-> 3,  maxLevel |-> 25,
     reqTotalProduced |-> 1000,   reqTotalRevenue |-> 0],
    [id |-> "turbo_clicker",   baseCost |-> 1000, costNum |-> 5,  costDen |-> 4,
     baseClicksPerSecond |-> 8,  maxLevel |-> 10,
     reqTotalProduced |-> 10000,  reqTotalRevenue |-> 100000],
    [id |-> "quantum_clicker", baseCost |-> 5000, costNum |-> 13, costDen |-> 10,
     baseClicksPerSecond |-> 20, maxLevel |-> 5,
     reqTotalProduced |-> 100000, reqTotalRevenue |-> 1000000] >>

AutoClickerIds == { autoClickerConfigs[i].id : i \in DOMAIN autoClickerConfigs }

\* AutomationService.facilityConfigs as constructed (owned 0, efficiency 1.0,
\* kept in hundredths).  mega_plant's requirement object names none of the
\* keys checkUnlockRequirement reads, so it carries no requirement here.
facilityDefs == <<
    [id |-> "basic_factory",    cost |-> 500,   baseProduction |-> 5,   maxOwned |-> 10,
     maintenanceCost |-> 2,  reqTotalProduced |-> 5000,  reqAutoClickersOwned |-> 0],
    [id |-> "advanced_factory", cost |-> 2500,  baseProduction |-> 25,  maxOwned |-> 5,
     maintenanceCost |-> 8,  reqTotalProduced |-> 50000, reqAutoClickersOwned |-> 5],
    [id |-> "mega_plant",       cost |-> 15000, baseProduction |-> 100, maxOwned |-> 2,
     maintenanceCost |-> 30, reqTotalProduced |-> 0,     reqAutoClickersOwned |-> 0] >>

FacilityIds == { facilityDefs[i].id : i \in DOMAIN facilityDefs }

\* ----------------------------------------------------- the game state
\* createInitialGameState.  manualRate 1 is 10 tenths, currentPrice 1 is 100
\* cents.  multipliers maps a multiplier's key to its value in hundredths;
\* autoClickers is the list of owned clickers.  market.condition is << >> when
\* it is undefined; of a condition the multiplier, in hundredths, and the
\* description are kept.
createInitialGameState == [
    resources    |-> [matchsticks |-> 0, money |-> 0, wood |-> 0, reputation |-> 0],
    production   |-> [manualRate |-> 10, multipliers |-> << >>, totalProduced |-> 0],
    market       |-> [currentPrice |-> 100, basePrice |-> 100,
                      priceHistory |-> << >>,
                      condition |-> <<[priceMultiplier |-> 100,
                                       description |-> "Normal market conditions"]>>,
                      autoSellEnabled |-> FALSE, autoSellThreshold |-> 100,
                      totalSold |-> 0, totalRevenue |-> 0],
    automation   |-> [autoClickers |-> << >>,
                      autoSellSettings |-> [enabled |-> FALSE, threshold |-> 100,
                                            maxPercentage |-> 50, priceThreshold |-> 50,
                                            smartSelling |-> FALSE],
                      totalMoneySpent |-> 0],
    achievements |-> [unlocked |-> << >>, totalUnlocked |-> 0],
    progression  |-> [currentPhase |-> "manual"],
    metadata     |-> [version |-> "1.0.0"] ]

\* A Partial<ResourceState> with every absent field read as 0, which is how
\* the store reads it (x ? ... : current, and x || 0).
NoResources == [matchsticks |-> 0, money |-> 0, wood |-> 0, reputation |-> 0]

\* gameActions.addResources
addResources(state, additions) ==
    [state EXCEPT !.resources = [
        matchsticks |-> IF additions.matchsticks # 0
                        THEN SafeBigInt_add(state.resources.matchsticks, additions.matchsticks)
                        ELSE state.resources.matchsticks,
        money       |-> state.resources.money + additions.money,
        wood        |-> state.resources.wood + additions.wood,
        reputation  |-> state.resources.reputation + additions.reputation ]]

\* gameActions.subtractResources, the validation: TRUE when it goes on to mutate.
subtractResourcesOk(state, subtractions) ==
    /\ ~(subtractions.matchsticks # 0 /\
         SafeBigInt_compare(state.resources.matchsticks, subtractions.matchsticks) < 0)
    /\ ~(subtractions.money # 0 /\ state.resources.money < subtractions.money)
    /\ ~(subtractions.wood # 0 /\ state.resources.wood < subtractions.wood)
    /\ ~(subtractions.reputation # 0 /\
         state.resources.reputation < subtractions.reputation)

\* A subtractResources that validates matchsticks only before it mutates.
subtractResourcesUnchecked(state, subtractions) ==
    IF subtractions.matchsticks # 0 /\
       SafeBigInt_compare(state.resources.matchsticks, subtractions.matchsticks) < 0
    THEN state
    ELSE [state EXCEPT !.resources = [
        matchsticks |-> SafeBigInt_subtract(state.resources.matchsticks,
                                            subtractions.matchsticks),
        money       |-> state.resources.money - subtractions.money,
        wood        |-> state.resources.wood - subtractions.wood,
        reputation  |-> state.resources.reputation - subtractions.reputation ]]

\* gameActions.subtractResources: the state it leaves.
subtractResources(state, subtractions) ==
    IF ~subtractResourcesOk(state, subtractions) THEN state
    ELSE [state EXCEPT !.resources = [
        matchsticks |-> IF subtractions.matchsticks # 0
                        THEN SafeBigInt_subtract(state.resources.matchsticks,
                                                 subtractions.matchsticks)
                        ELSE state.resources.matchsticks,
        money       |-> state.resources.money - subtractions.money,
        wood        |-> state.resources.wood - subtractions.wood,
        reputation  |-> state.resources.reputation - subtractions.reputation ]]

\* gameActions.updateProduction / updateMarket / updateAutomation /
\* updateAchievements: a shallow merge of the named fields.
Merge(rec, updates) ==
    [k \in DOMAIN rec |-> IF k \in DOMAIN updates THEN updates[k] ELSE rec[k]]

updateProduction(state, updates) ==
    [state EXCEPT !.production = Merge(state.production, updates)]
updateMarket(state, updates) ==
    [state EXCEPT !.market = Merge(state.market, updates)]
updateAutomation(state, updates) ==
    [state EXCEPT !.automation = Merge(state.automation, updates)]
updateAchievements(state, updates) ==
    [state EXCEPT !.achievements = Merge(state.achievements, updates)]

\* An event log that is never cut.
emitEventUnbounded(events, event) == <<event>> \o events

\* gameActions.emitEvent: the event goes to the front and the list is cut to
\* its first 100.
emitEvent(events, event) ==
    LET newEvents == <<event>> \o events
    IN  SubSeq(newEvents, 1, Min2(100, Len(newEvents)))

\* The events of one handler, emitted in the order of the list.
RECURSIVE emitAll(_, _)
emitAll(events, emitted) ==
    IF emitted = << >> THEN events
    ELSE emitAll(emitEvent(events, Head(emitted)), Tail(emitted))

\* An event, reduced to its type and the id its data names.
Event(type, key) == [type |-> type, key |-> key]

\* The achievement_unlocked events of a checkAchievements call.
achievementEvents(newly) ==
    [i \in DOMAIN newly |-> Event("achievement_unlocked", newly[i])]

\* --------------------------------------------------------------- Init
\* ret carries the same fields for every operation; those an operation does
\* not use keep the values below.  prev is the operation called before it.
NoRet == [op |-> "none", prev |-> "none", ok |-> TRUE, delta |-> NoResources, amount |-> 0, id |-> "",
          produced |-> 0, revenue |-> 0, cost |-> 0, error |-> "",
          comboCount |-> 0, comboMultiplier |-> 100, newly |-> << >>, reward |-> 0,
          saveId |-> 0, isAutoSave |-> FALSE, loaded |-> << >>, rotated |-> {},
          bundle |-> << >>, event |-> << >>, data |-> << >>]

StartTime == 5000

\* startAutomation sets the four intervals; the constructor calls it.
Intervals == {"autoClick", "autoProduction", "autoSell", "maintenance"}

Init ==
    /\ gameState = createInitialGameState
    /\ clickCombo = [count |-> 0, multiplier |-> 100, maxCombo |-> 50]
    /\ lastClickTime = 0
    /\ achievements = [id \in AchievementIds |-> FALSE]
    /\ facilityConfigs = [id \in FacilityIds |-> [owned |-> 0, efficiency |-> 100]]
    /\ now = StartTime
    /\ ops = 0
    /\ ret = NoRet
    /\ rewardCount = [id \in AchievementIds |-> 0]
    /\ loadedUnlocked = {}
    /\ synced = FALSE
    /\ recentTrades = << >>
    /\ gameEvents = << >>
    /\ db = [saves |-> {}, settings |-> {}, achievements |-> {}]
    /\ saving = << >>
    /\ saveCount = 0
    /\ saved = << >>
    /\ intervals = Intervals
    /\ ticks = << >>
    /\ timeouts = << >>

\* ------------------------------------------------- the ledger, alone
\* The deltas the ledger specification draws from.  Negative amounts are in
\* the domain: purchaseAutoClicker, purchaseFacility and processMaintenance
\* call addResources({money: -cost}), and automation.test.ts calls
\* addResources({money: -9980}).
LedgerDeltas ==
    [matchsticks : {-1, 0, 2, MAX_SAFE}, money : {-1, 0, 2},
     wood : {0, 1}, reputation : {0, 1}]

AddResources(additions) ==
    /\ gameState' = addResources(gameState, additions)
    /\ ret' = [NoRet EXCEPT !.prev = ret.op, !.op = "addResources", !.delta = additions]
    /\ ops' = ops + 1
    /\ UNCHANGED <<timerVars, serviceVars, historyVars, now,
                   recentTrades, gameEvents, storageVars>>

SubtractResources(subtractions) ==
    /\ gameState' = subtractResources(gameState, subtractions)
    /\ ret' = [NoRet EXCEPT !.prev = ret.op, !.op = "subtractResources", !.delta = subtractions,
                            !.ok = subtractResourcesOk(gameState, subtractions)]
    /\ ops' = ops + 1
    /\ UNCHANGED <<timerVars, serviceVars, historyVars, now,
                   recentTrades, gameEvents, storageVars>>

NextLedger ==
    /\ ops < MaxLedgerOps
    /\ \/ \E additions \in LedgerDeltas : AddResources(additions)
       \/ \E subtractions \in LedgerDeltas : SubtractResources(subtractions)

SpecLedger == Init /\ [][NextLedger]_vars

ResourceFields == {"matchsticks", "money", "wood", "reputation"}

\* The step is a call of operation op (every call counts in ops and leaves
\* its name, input and result in ret).
Called(op) == ops' = ops + 1 /\ ret'.op = op

\* C2: subtractResources(delta) is all-or-nothing.  If a field of delta
\* exceeds the balance held, the call returns false and the ledger is left as
\* it was; otherwise it returns true and every field has gone down by exactly
\* its delta.  (A field is in delta when delta names an amount for it; the
\* store reads an amount of 0 as the field being absent.)
C2_SubtractAllOrNothing ==
    [][Called("subtractResources") =>
        LET d  == ret'.delta
            r  == gameState.resources
            r2 == gameState'.resources
        IN  IF \E k \in ResourceFields : d[k] # 0 /\ d[k] > r[k]
            THEN ~ret'.ok /\ r2 = r
            ELSE ret'.ok /\ \A k \in ResourceFields : r2[k] = r[k] - d[k]]_vars

\* C2 witness: a subtraction of two fields at once has succeeded, and the
\* ledger still holds something.
C2_Witness ==
    /\ ret.op = "subtractResources" /\ ret.ok
    /\ ret.delta.matchsticks > 0 /\ ret.delta.money > 0
    /\ gameState.resources.matchsticks > 0

\* C3 (as claimed): after any sequence of addResources and subtractResources
\* calls from the default state no ledger field is negative.
C3_LedgerNeverNegative ==
    \A k \in ResourceFields : gameState.resources[k] >= 0

\* ---------------------------------------------------- AchievementService
RECURSIVE SumLevels(_)
SumLevels(clickers) ==
    IF clickers = << >> THEN 0 ELSE Head(clickers).level + SumLevels(Tail(clickers))

\* AchievementService.isAchievementMet
isAchievementMet(achievement, state) ==
    CASE achievement.type = "resource_total" ->
           IF achievement.stat = "matchsticks"
           THEN state.production.totalProduced >= achievement.value
           ELSE FALSE
      [] achievement.type = "stat_threshold" ->
           CASE achievement.stat = "totalSold" ->
                  state.market.totalSold >= achievement.value
             [] achievement.stat = "totalRevenue" ->
                  state.market.totalRevenue >= achievement.value
             [] achievement.stat = "totalAutomationSpent" ->
                  state.automation.totalMoneySpent >= achievement.value
             [] achievement.stat = "totalAutoClickers" ->
                  SumLevels(state.automation.autoClickers) >= achievement.value
             [] OTHER -> FALSE
      [] achievement.type = "phase_reached" ->
           state.progression.currentPhase = achievement.stat
      [] OTHER -> FALSE

\* AchievementService.applyReward: a money reward is credited unless it is 0.
applyReward(state, reward) ==
    IF reward # 0 THEN addResources(state, [NoResources EXCEPT !.money = reward])
    ELSE state

\* An unlock that forgets to set the rule's flag.
markUnlockedForgotten(flags, id) == flags

\* achievement.unlocked = true
markUnlocked(flags, id) == [flags EXCEPT ![id] = TRUE]

\* The loop of checkAchievements from rule i on.  snapshot is the state read
\* once before the loop (const state = get(gameState)): the requirements are
\* evaluated on it and the new unlocked list and totalUnlocked are built from
\* it.  acc: the store's state, the flags, the rules unlocked by this call,
\* the money they credited and the reward history.
RECURSIVE checkAchievementsFrom(_, _, _)
checkAchievementsFrom(i, snapshot, acc) ==
    IF i > Len(achievementDefs) THEN acc
    ELSE LET achievement == achievementDefs[i] IN
         IF acc.flags[achievement.id] THEN checkAchievementsFrom(i + 1, snapshot, acc)
         ELSE IF isAchievementMet(achievement, snapshot)
         THEN checkAchievementsFrom(i + 1, snapshot,
                [state  |-> updateAchievements(
                               applyReward(acc.state, achievement.reward),
                               [unlocked |-> Append(snapshot.achievements.unlocked,
                                                    achievement.id),
                                totalUnlocked |-> snapshot.achievements.totalUnlocked + 1]),
                 flags  |-> markUnlocked(acc.flags, achievement.id),
                 newly  |-> Append(acc.newly, achievement.id),
                 reward |-> acc.reward + achievement.reward,
                 counts |-> [acc.counts EXCEPT ![achievement.id] = @ + 1]])
         ELSE checkAchievementsFrom(i + 1, snapshot, acc)

\* AchievementService.checkAchievements
checkAchievements(state, flags, counts) ==
    checkAchievementsFrom(1, state,
        [state |-> state, flags |-> flags, newly |-> << >>, reward |-> 0,
         counts |-> counts])

\* AchievementService.unlockAchievementById: the state is read after the
\* reward has been credited.
unlockAchievementById(state, flags, counts, id) ==
    IF id \in AchievementIds /\ ~flags[id]
    THEN LET achievement == CHOOSE a \in { achievementDefs[i] : i \in DOMAIN achievementDefs } :
                                a.id = id
             rewarded == applyReward(state, achievement.reward)
         IN  [state  |-> updateAchievements(rewarded,
                            [unlocked |-> Append(rewarded.achievements.unlocked, id),
                             totalUnlocked |-> rewarded.achievements.totalUnlocked + 1]),
              flags  |-> markUnlocked(flags, id),
              newly  |-> <<id>>,
              reward |-> achievement.reward,
              counts |-> [counts EXCEPT ![id] = @ + 1]]
    ELSE [state |-> state, flags |-> flags, newly |-> << >>, reward |-> 0,
          counts |-> counts]

\* ----------------------------------------------------- ProductionService
\* updateClickStats: the part that bears on the combo (the click statistics
\* are not modelled).
updateClickStats(clickCount, currentTime) == currentTime

comboDecayTime == 2000

\* An updateClickCombo that does not cap the count at maxCombo.
updateClickComboUncapped(combo, lastClick, currentTime) ==
    IF currentTime - lastClick > 2000
    THEN [combo EXCEPT !.count = 1, !.multiplier = 100]
    ELSE [combo EXCEPT !.count = combo.count + 1, !.multiplier = 100 + combo.count]

\* updateClickCombo, given this.lastClickTime as it stands when it is called.
\* The multiplier 1 + (count - 1) * 0.01 is kept in hundredths.
updateClickCombo(combo, lastClick, currentTime) ==
    LET timeSinceLastClick == currentTime - lastClick IN
    IF timeSinceLastClick > comboDecayTime
    THEN [combo EXCEPT !.count = 1, !.multiplier = 100]
    ELSE LET count == Min2(combo.count + 1, combo.maxCombo)
         IN  [combo EXCEPT !.count = count, !.multiplier = 100 + (count - 1)]

\* calculateTotalMultiplier: comboMultiplier times every multiplier > 0 of
\* the state, as the fraction num / den (each factor is in hundredths).
RECURSIVE MultiplyAll(_, _, _)
MultiplyAll(multipliers, keys, acc) ==
    IF keys = {} THEN acc
    ELSE LET id == CHOOSE k \in keys : TRUE
             multiplier == multipliers[id]
         IN  MultiplyAll(multipliers, keys \ {id},
                 IF multiplier > 0
                 THEN [num |-> acc.num * multiplier, den |-> acc.den * 100]
                 ELSE acc)

calculateTotalMultiplier(state, comboMultiplier) ==
    MultiplyAll(state.production.multipliers, DOMAIN state.production.multipliers,
                [num |-> comboMultiplier, den |-> 100])

\* BigInt(Math.floor(baseProduction * totalMultiplier)), manualRate in tenths.
finalProduction(state, clickCount, totalMultiplier) ==
    (state.production.manualRate * clickCount * totalMultiplier.num)
        \div (10 * totalMultiplier.den)

\* A floor that is not raised to one matchstick per click.
actualProductionNoMinimum(final, clickCount) == final

\* Ensure we produce at least 1 matchstick per click.
actualProduction(final, clickCount) == IF final > clickCount THEN final ELSE clickCount

\* ProductionService.produceMatchsticks(clickCount), the try branch (rates and
\* multipliers are finite numbers and clickCount an integer, so BigInt() does
\* not throw).  Yields the new store state, service state and the result.
produceMatchsticks(state, combo, lastClick, flags, counts, clickCount, currentTime) ==
    LET lastClick2 == updateClickStats(clickCount, currentTime)
        combo2     == updateClickCombo(combo, lastClick2, currentTime)
        total      == calculateTotalMultiplier(state, combo2.multiplier)
        produced   == actualProduction(finalProduction(state, clickCount, total), clickCount)
        added      == addResources(state, [NoResources EXCEPT !.matchsticks = produced])
        counted    == updateProduction(added,
                          [totalProduced |->
                              SafeBigInt_add(state.production.totalProduced, produced)])
        checked    == checkAchievements(counted, flags, counts)
    IN  [state |-> checked.state, flags |-> checked.flags, counts |-> checked.counts,
         newly |-> checked.newly, reward |-> checked.reward,
         clickCombo |-> combo2, lastClickTime |-> lastClick2,
         produced |-> produced, comboMultiplier |-> combo2.multiplier,
         totalMultiplier |-> total, comboCount |-> combo2.count]

\* ---------------------------------------------------------- MarketService
\* calculateMarketImpact, in ten-thousandths: 1 up to 1000 units, then
\* 1 - min(0.2, (amount - 1000) / 10000).
calculateMarketImpact(amount) ==
    IF amount <= 1000 THEN 10000 ELSE 10000 - Min2(2000, amount - 1000)

\* A product of a price in cents and a factor num / den, rounded to the cent.
Scaled(price, num, den) == (2 * price * num + den) \div (2 * den)

\* updatePriceAfterTrade(amount, price): the price passed in less
\* min(5%, amount / 5000), and never below 0.1.
updatePriceAfterTrade(state, amount, price) ==
    updateMarket(state,
        [currentPrice |-> Max2(10, Scaled(price, 5000 - Min2(250, amount), 5000))])

\* gameActions.sellMatchsticks(amount) of the store: it takes the matchsticks,
\* credits amount * currentPrice and counts the sale in totalSold and
\* totalRevenue.
gameActions_sellMatchsticks(state, amount) ==
    IF SafeBigInt_compare(state.resources.matchsticks, amount) < 0
    THEN [ok |-> FALSE, state |-> state]
    ELSE LET revenue == amount * state.market.currentPrice
             taking  == [NoResources EXCEPT !.matchsticks = amount]
         IN  IF subtractResourcesOk(state, taking)
             THEN [ok |-> TRUE,
                   state |-> updateMarket(
                       addResources(subtractResources(state, taking),
                                    [NoResources EXCEPT !.money = revenue]),
                       [totalSold |-> SafeBigInt_add(state.market.totalSold, amount),
                        totalRevenue |-> state.market.totalRevenue + revenue])]
             ELSE [ok |-> FALSE, state |-> state]

\* A validation that lets every amount through.
sellAmountValidAlways(state, amount) == TRUE

\* MarketService.sellMatchsticks, the validation: the amount is above 0 and
\* not above the matchsticks held.
sellAmountValid(state, amount) ==
    ~(amount <= 0) /\ ~(amount > state.resources.matchsticks)

\* this.recentTrades.unshift(transaction), cut to the first 50.
trackTrade(trades, transaction) ==
    LET tracked == <<transaction>> \o trades
    IN  SubSeq(tracked, 1, Min2(50, Len(tracked)))

\* MarketService.sellMatchsticks(amount).  An amount <= 0 or above the
\* holdings throws inside the try and the catch returns the failure.  On
\* success the service, after the store's sellMatchsticks, credits its own
\* revenue and counts the sale once more.
sellMatchsticks(state, trades, flags, counts, amount) ==
    LET failure == [state |-> state, trades |-> trades, flags |-> flags,
                    counts |-> counts, ok |-> FALSE,
                    revenue |-> 0, pricePerUnit |-> state.market.currentPrice,
                    events |-> << >>, newly |-> << >>, reward |-> 0]
    IN
    IF ~sellAmountValid(state, amount) THEN failure
    ELSE LET pricePerUnit   == state.market.currentPrice
             effectivePrice == Scaled(pricePerUnit, calculateMarketImpact(amount), 10000)
             revenue        == amount * effectivePrice
             traded         == gameActions_sellMatchsticks(state, amount)
         IN  IF ~traded.ok THEN failure
             ELSE LET paid    == addResources(traded.state,
                                              [NoResources EXCEPT !.money = revenue])
                      counted == updateMarket(paid,
                          [totalSold |-> SafeBigInt_add(paid.market.totalSold, amount),
                           totalRevenue |-> paid.market.totalRevenue + revenue])
                      transaction == [matchsticksSold |-> amount,
                                      pricePerUnit |-> effectivePrice,
                                      totalRevenue |-> revenue]
                      priced  == updatePriceAfterTrade(counted, amount, effectivePrice)
                      checked == checkAchievements(priced, flags, counts)
                  IN  [state |-> checked.state,
                       trades |-> trackTrade(trades, transaction),
                       flags |-> checked.flags,
                       counts |-> checked.counts, ok |-> TRUE, revenue |-> revenue,
                       pricePerUnit |-> effectivePrice,
                       events |-> <<Event("matchsticks_sold", ""),
                                    Event("trade_executed", "")>>
                                  \o achievementEvents(checked.newly),
                       newly |-> checked.newly, reward |-> checked.reward]

\* ------------------------------------------------------ AutomationService
RECURSIVE Pow(_, _)
Pow(b, e) == IF e = 0 THEN 1 ELSE b * Pow(b, e - 1)

\* floor(baseCost * costMultiplier ^ currentLevel) in exact arithmetic.
ExactCost(config, currentLevel) ==
    (config.baseCost * Pow(config.costNum, currentLevel))
        \div Pow(config.costDen, currentLevel)

\* A cost that does not grow with the level.
calculateAutoClickerCostFlat(config, currentLevel) == config.baseCost

\* calculateAutoClickerCost: Math.floor(baseCost * Math.pow(costMultiplier,
\* currentLevel)) in double precision.  For every clicker and every level
\* below its maxLevel that is the exact floor, but for the fast clicker at
\* level 3: Math.pow(1.2, 3) is 1.7279999999999998, 250 times it is
\* 431.99999999999994, and the floor is 431 where 250 * 1.728 is 432.
calculateAutoClickerCost(config, currentLevel) ==
    IF config.id = "fast_clicker" /\ currentLevel = 3
    THEN ExactCost(config, currentLevel) - 1
    ELSE ExactCost(config, currentLevel)

\* A requirement check that lets every purchase through.
checkClickerRequirementNone(config, state) == TRUE

\* checkUnlockRequirement for an auto-clicker's requirement.
checkClickerRequirement(config, state) ==
    /\ ~(config.reqTotalProduced # 0 /\
         state.production.totalProduced < config.reqTotalProduced)
    /\ ~(config.reqTotalRevenue # 0 /\
         state.market.totalRevenue < config.reqTotalRevenue)

\* checkUnlockRequirement for a facility's requirement.
checkFacilityRequirement(config, state) ==
    /\ ~(config.reqTotalProduced # 0 /\
         state.production.totalProduced < config.reqTotalProduced)
    /\ ~(config.reqAutoClickersOwned # 0 /\
         SumLevels(state.automation.autoClickers) < config.reqAutoClickersOwned)

ClickerLevel(clickers, clickerId) ==
    IF \E i \in DOMAIN clickers : clickers[i].id = clickerId
    THEN clickers[CHOOSE i \in DOMAIN clickers : clickers[i].id = clickerId].level
    ELSE 0

\* The list with clickerId's level raised, or the clicker appended at level 1.
WithClickerLevel(clickers, clickerId, newLevel) ==
    IF \E i \in DOMAIN clickers : clickers[i].id = clickerId
    THEN [i \in DOMAIN clickers |->
            IF clickers[i].id = clickerId
            THEN [clickers[i] EXCEPT !.level = newLevel] ELSE clickers[i]]
    ELSE Append(clickers, [id |-> clickerId, level |-> newLevel, isActive |-> TRUE,
                           totalClicks |-> 0, efficiency |-> 100])

\* A level check that never refuses.
maxLevelReachedNever(config, currentLevel) == FALSE

\* The level check of purchaseAutoClicker.
maxLevelReached(config, currentLevel) == currentLevel >= config.maxLevel

\* AutomationService.purchaseAutoClicker
purchaseAutoClicker(state, flags, counts, clickerId) ==
    LET failed(error) == [state |-> state, flags |-> flags, counts |-> counts,
                          ok |-> FALSE, error |-> error, cost |-> 0,
                          events |-> << >>, newly |-> << >>, reward |-> 0]
    IN
    IF clickerId \notin AutoClickerIds THEN failed("Auto-clicker not found")
    ELSE LET config == autoClickerConfigs[
                           CHOOSE i \in DOMAIN autoClickerConfigs :
                               autoClickerConfigs[i].id = clickerId]
             currentLevel == ClickerLevel(state.automation.autoClickers, clickerId)
         IN
         IF maxLevelReached(config, currentLevel)
         THEN failed("Maximum level reached")
         ELSE IF ~checkClickerRequirement(config, state)
         THEN failed("Unlock requirements not met")
         ELSE LET cost == 100 * calculateAutoClickerCost(config, currentLevel) IN
              IF state.resources.money < cost THEN failed("Insufficient funds")
              ELSE LET paid    == addResources(state, [NoResources EXCEPT !.money = -cost])
                       bought  == updateAutomation(paid,
                                     [autoClickers |->
                                         WithClickerLevel(state.automation.autoClickers,
                                                          clickerId, currentLevel + 1)])
                       spent   == updateAutomation(bought,
                                     [totalMoneySpent |->
                                         state.automation.totalMoneySpent + cost])
                       checked == checkAchievements(spent, flags, counts)
                   IN  [state |-> checked.state, flags |-> checked.flags,
                        counts |-> checked.counts, ok |-> TRUE, error |-> "",
                        cost |-> cost,
                        events |-> <<Event("upgrade_purchased", clickerId)>>
                                   \o achievementEvents(checked.newly),
                        newly |-> checked.newly, reward |-> checked.reward]

\* AutomationService.purchaseFacility.  The count owned lives in the service's
\* facilityConfigs, not in the store.
purchaseFacility(state, facilities, flags, counts, facilityId) ==
    LET failed(error) == [state |-> state, facilities |-> facilities, flags |-> flags,
                          counts |-> counts, ok |-> FALSE, error |-> error, cost |-> 0,
                          events |-> << >>, newly |-> << >>, reward |-> 0]
    IN
    IF facilityId \notin FacilityIds THEN failed("Facility not found")
    ELSE LET config == facilityDefs[CHOOSE i \in DOMAIN facilityDefs :
                                        facilityDefs[i].id = facilityId]
             currentCount == facilities[facilityId].owned
         IN
         IF currentCount >= config.maxOwned THEN failed("Maximum facilities owned")
         ELSE IF ~checkFacilityRequirement(config, state)
         THEN failed("Unlock requirements not met")
         ELSE LET cost == 100 * ((config.cost * Pow(3, currentCount))
                                    \div Pow(2, currentCount)) IN
              IF state.resources.money < cost THEN failed("Insufficient funds")
              ELSE LET paid    == addResources(state, [NoResources EXCEPT !.money = -cost])
                       spent   == updateAutomation(paid,
                                     [totalMoneySpent |->
                                         state.automation.totalMoneySpent + cost])
                       checked == checkAchievements(spent, flags, counts)
                   IN  [state |-> checked.state,
                        facilities |-> [facilities EXCEPT
                                            ![facilityId].owned = currentCount + 1],
                        flags |-> checked.flags, counts |-> checked.counts,
                        ok |-> TRUE, error |-> "", cost |-> cost,
                        events |-> <<Event("upgrade_purchased", facilityId)>>
                                   \o achievementEvents(checked.newly),
                        newly |-> checked.newly, reward |-> checked.reward]

\* ------------------------------------------------------------ actions
\* Time passes between two calls.
AdvanceClock(d) ==
    /\ now + d <= StartTime + MaxElapsed
    /\ now' = now + d
    /\ UNCHANGED <<timerVars, gameState, serviceVars, historyVars, ops, ret,
                   recentTrades, gameEvents, storageVars>>

Produce(clickCount) ==
    LET r == produceMatchsticks(gameState, clickCombo, lastClickTime, achievements,
                                rewardCount, clickCount, now)
    IN  /\ gameState' = r.state
        /\ clickCombo' = r.clickCombo
        /\ lastClickTime' = r.lastClickTime
        /\ achievements' = r.flags
        /\ rewardCount' = r.counts
        /\ ret' = [NoRet EXCEPT !.prev = ret.op, !.op = "produce", !.amount = clickCount,
                                !.produced = r.produced, !.comboCount = r.comboCount,
                                !.comboMultiplier = r.comboMultiplier,
                                !.newly = r.newly, !.reward = r.reward]
        /\ ops' = ops + 1
        /\ gameEvents' = emitAll(gameEvents,
               <<Event("manual_production", "")>> \o achievementEvents(r.newly))
        /\ UNCHANGED <<timerVars, facilityConfigs, now, loadedUnlocked, synced,
                   recentTrades, storageVars>>

\* ProductionService.resetCombo
ResetCombo ==
    /\ clickCombo' = [clickCombo EXCEPT !.count = 0, !.multiplier = 100]
    /\ ret' = [NoRet EXCEPT !.prev = ret.op, !.op = "resetCombo"]
    /\ ops' = ops + 1
    /\ UNCHANGED <<timerVars, gameState, lastClickTime, achievements, facilityConfigs, now,
                   historyVars,
                   recentTrades, gameEvents, storageVars>>

\* MarketService.sellMatchsticks
Sell(amount) ==
    LET r == sellMatchsticks(gameState, recentTrades, achievements, rewardCount, amount)
    IN  /\ gameState' = r.state
        /\ achievements' = r.flags
        /\ rewardCount' = r.counts
        /\ ret' = [NoRet EXCEPT !.prev = ret.op, !.op = "sell", !.ok = r.ok, !.amount = amount,
                                !.revenue = r.revenue, !.newly = r.newly,
                                !.reward = r.reward]
        /\ ops' = ops + 1
        /\ recentTrades' = r.trades
        /\ gameEvents' = emitAll(gameEvents, r.events)
        /\ UNCHANGED <<timerVars, clickCombo, lastClickTime, facilityConfigs, now,
                       loadedUnlocked, synced,
                   storageVars>>

\* AutomationService.purchaseAutoClicker
PurchaseAutoClicker(clickerId) ==
    LET r == purchaseAutoClicker(gameState, achievements, rewardCount, clickerId)
    IN  /\ gameState' = r.state
        /\ achievements' = r.flags
        /\ rewardCount' = r.counts
        /\ ret' = [NoRet EXCEPT !.prev = ret.op, !.op = "purchaseAutoClicker", !.ok = r.ok,
                                !.id = clickerId, !.cost = r.cost, !.error = r.error,
                                !.newly = r.newly, !.reward = r.reward]
        /\ ops' = ops + 1
        /\ gameEvents' = emitAll(gameEvents, r.events)
        /\ UNCHANGED <<timerVars, clickCombo, lastClickTime, facilityConfigs, now,
                       loadedUnlocked, synced,
                   recentTrades, storageVars>>

\* AutomationService.purchaseFacility
PurchaseFacility(facilityId) ==
    LET r == purchaseFacility(gameState, facilityConfigs, achievements, rewardCount,
                              facilityId)
    IN  /\ gameState' = r.state
        /\ facilityConfigs' = r.facilities
        /\ achievements' = r.flags
        /\ rewardCount' = r.counts
        /\ ret' = [NoRet EXCEPT !.prev = ret.op, !.op = "purchaseFacility", !.ok = r.ok,
                                !.id = facilityId, !.cost = r.cost, !.error = r.error,
                                !.newly = r.newly, !.reward = r.reward]
        /\ ops' = ops + 1
        /\ gameEvents' = emitAll(gameEvents, r.events)
        /\ UNCHANGED <<timerVars, clickCombo, lastClickTime, now, loadedUnlocked, synced,
                   recentTrades, storageVars>>

\* AchievementService.checkAchievements, called from outside the services.
CheckAll ==
    LET r == checkAchievements(gameState, achievements, rewardCount)
    IN  /\ gameState' = r.state
        /\ achievements' = r.flags
        /\ rewardCount' = r.counts
        /\ ret' = [NoRet EXCEPT !.prev = ret.op, !.op = "checkAll", !.newly = r.newly,
                                !.reward = r.reward]
        /\ ops' = ops + 1
        /\ gameEvents' = emitAll(gameEvents, achievementEvents(r.newly))
        /\ UNCHANGED <<timerVars, clickCombo, lastClickTime, facilityConfigs, now,
                       loadedUnlocked, synced,
                   recentTrades, storageVars>>

\* AchievementService.unlockAchievementById
UnlockAchievementById(id) ==
    LET r == unlockAchievementById(gameState, achievements, rewardCount, id)
    IN  /\ gameState' = r.state
        /\ achievements' = r.flags
        /\ rewardCount' = r.counts
        /\ ret' = [NoRet EXCEPT !.prev = ret.op, !.op = "unlockAchievementById", !.id = id,
                                !.ok = (r.newly # << >>), !.newly = r.newly,
                                !.reward = r.reward]
        /\ ops' = ops + 1
        /\ UNCHANGED <<timerVars, clickCombo, lastClickTime, facilityConfigs, now,
                       loadedUnlocked, synced,
                   recentTrades, gameEvents, storageVars>>

\* gameActions.updateProduction(updates), as the upgrade code and the tests
\* call it to set the rate, the multipliers or the total produced.
UpdateProduction(updates) ==
    /\ gameState' = updateProduction(gameState, updates)
    /\ ret' = [NoRet EXCEPT !.prev = ret.op, !.op = "updateProduction"]
    /\ ops' = ops + 1
    /\ UNCHANGED <<timerVars, serviceVars, historyVars, now,
                   recentTrades, gameEvents, storageVars>>

\* The production updates the play draws from: a rate of 0.1 and of 2.5, a
\* total produced that meets first_match and first_hundred at once, and
\* multiplier sets with a factor below 1, above 1, of 0 and below 0.
ProductionUpdates ==
    { [manualRate |-> 1], [manualRate |-> 25], [totalProduced |-> 100],
      [multipliers |-> ("upgrade" :> 50)],
      [multipliers |-> ("upgrade" :> 200 @@ "penalty" :> 0 @@ "debt" :> -100)] }

\* validateAndSanitizeState: the fields the data lacks come from the initial
\* state, an unsafe matchsticks count becomes 0 and money, wood and
\* reputation are raised to 0.
validateAndSanitizeState(state) ==
    LET sanitized == [k \in DOMAIN createInitialGameState |->
                         IF k \in DOMAIN state THEN state[k]
                         ELSE createInitialGameState[k]]
    IN  [sanitized EXCEPT !.resources = [
            matchsticks |-> IF SafeBigInt_isSafe(sanitized.resources.matchsticks)
                            THEN sanitized.resources.matchsticks ELSE 0,
            money       |-> Max2(0, sanitized.resources.money),
            wood        |-> Max2(0, sanitized.resources.wood),
            reputation  |-> Max2(0, sanitized.resources.reputation) ]]

\* A load that merges a partial update into the initial state.
loadOverInitial(current, data) ==
    IF {"metadata", "resources", "production", "market"} \subseteq DOMAIN data
    THEN validateAndSanitizeState(data)
    ELSE validateAndSanitizeState(
            [k \in DOMAIN current |->
                IF k \in {"resources", "production", "market", "automation"}
                   /\ k \in DOMAIN data
                THEN Merge(createInitialGameState[k], data[k])
                ELSE createInitialGameState[k]])

\* gameActions.load(data): data with metadata, resources, production and
\* market is a full state and replaces the store; any other data is a
\* partial update, of which the resources, production, market and automation
\* objects are merged into the current state and nothing else is read.
load(current, data) ==
    IF {"metadata", "resources", "production", "market"} \subseteq DOMAIN data
    THEN validateAndSanitizeState(data)
    ELSE validateAndSanitizeState(
            [k \in DOMAIN current |->
                IF k \in {"resources", "production", "market", "automation"}
                   /\ k \in DOMAIN data
                THEN Merge(current[k], data[k]) ELSE current[k]])

\* The services keep what they hold across a load.
Load(data) ==
    /\ gameState' = load(gameState, data)
    /\ loadedUnlocked' = IF "achievements" \in DOMAIN data
                         THEN { data.achievements.unlocked[i] :
                                   i \in DOMAIN data.achievements.unlocked }
                         ELSE {}
    /\ synced' = FALSE
    /\ ret' = [NoRet EXCEPT !.prev = ret.op, !.op = "load", !.data = <<data>>]
    /\ ops' = ops + 1
    /\ gameEvents' = emitEvent(gameEvents, Event("state_loaded", ""))
    /\ UNCHANGED <<timerVars, serviceVars, rewardCount, now,
                   recentTrades, storageVars>>

\* The saved games the load specification draws from.  Full states: one whose
\* totals meet first_match and first_hundred and that holds first_match as
\* unlocked, one at the top of the safe range with the three production
\* achievements unlocked, and one whose resources need sanitizing.  Partial
\* updates: the unlocked list of a saved game with the total produced that
\* earned it, and a negative balance.
Snapshots ==
    { [createInitialGameState EXCEPT
          !.resources.matchsticks = 100, !.resources.money = 1000,
          !.production.totalProduced = 100,
          !.achievements = [unlocked |-> <<"first_match">>, totalUnlocked |-> 1]],
      [createInitialGameState EXCEPT
          !.resources.matchsticks = MAX_SAFE - 1, !.resources.money = 26000,
          !.production.totalProduced = MAX_SAFE - 1,
          !.achievements = [unlocked |-> <<"first_match", "first_hundred",
                                           "thousand_matches">>,
                            totalUnlocked |-> 3]],
      [createInitialGameState EXCEPT
          !.resources.matchsticks = MAX_SAFE + 1, !.resources.money = -100],
      [achievements |-> [unlocked |-> <<"first_match">>, totalUnlocked |-> 1],
       production   |-> [totalProduced |-> 10]],
      [resources |-> [money |-> -100]] }

\* AchievementService.syncWithGameState: every achievement's unlocked flag
\* becomes whether the store's unlocked list holds its id.
syncWithGameState(state, flags) ==
    [id \in DOMAIN flags |->
        \E i \in DOMAIN state.achievements.unlocked :
            state.achievements.unlocked[i] = id]

SyncWithGameState ==
    /\ achievements' = syncWithGameState(gameState, achievements)
    /\ synced' = TRUE
    /\ ret' = [NoRet EXCEPT !.prev = ret.op, !.op = "syncWithGameState"]
    /\ ops' = ops + 1
    /\ UNCHANGED <<timerVars, gameState, clickCombo, lastClickTime, facilityConfigs, now,
                   rewardCount, loadedUnlocked,
                   recentTrades, gameEvents, storageVars>>

\* The combo: single clicks and the clock.
ClockSteps == {1000, 2500}

NextCombo ==
    \/ \E d \in ClockSteps : AdvanceClock(d)
    \/ ops < MaxClicks /\ Produce(1)

SpecCombo == Init /\ [][NextCombo]_vars

\* Before a produce call, lastClickTime is the time of the produce call
\* before it (0 when there was none), so now - lastClickTime is the gap
\* between the two calls.

\* C8 (as claimed): across consecutive produce calls the combo multiplier does
\* not decrease while a call comes within 2000 ms of the one before, and a
\* call made more than 2000 ms after the one before returns comboCount 1 and
\* comboMultiplier 1.
C8_ComboResetsAfterGap ==
    [][Called("produce") =>
        IF now - lastClickTime > comboDecayTime
        THEN ret'.comboCount = 1 /\ ret'.comboMultiplier = 100
        ELSE ret'.comboMultiplier >= clickCombo.multiplier]_vars

\* C9: after every produce call comboCount is in 1..50 and comboMultiplier is
\* 1 + 0.01 * (comboCount - 1); a call within the window raises the count by
\* one until it is 50, where it stays.
C9_ComboCountAndMultiplier ==
    [][Called("produce") =>
        /\ ret'.comboCount \in 1..50
        /\ ret'.comboMultiplier = 100 + (ret'.comboCount - 1)
        /\ clickCombo'.count = ret'.comboCount
        /\ clickCombo'.multiplier = ret'.comboMultiplier
        /\ (now - lastClickTime <= comboDecayTime =>
              ret'.comboCount = IF clickCombo.count < 50 THEN clickCombo.count + 1
                                ELSE 50)]_vars

\* C9 witness: a produce call after the count had reached 50 returned 50.
C9_Witness ==
    ret.op = "produce" /\ ret.comboCount = 50 /\ ret.comboMultiplier = 149 /\ ops > 50

\* ------------------------------------------------------------- the play
\* produce, sell, purchase, checkAll and unlockAchievementById, with the
\* production settings changing in between; no reset and no load.
ClickCounts == {1, 3, 100}
SellAmounts == {-1, 0, 1, 100}
PurchasableClickers == {"basic_clicker", "fast_clicker", "no_such_clicker"}
PurchasableFacilities == {"basic_factory", "mega_plant"}
ManualUnlocks == {"first_match", "first_sale", "no_such_achievement"}

PlayStep ==
    \/ \E clickCount \in ClickCounts : Produce(clickCount)
    \/ \E amount \in SellAmounts : Sell(amount)
    \/ \E clickerId \in PurchasableClickers : PurchaseAutoClicker(clickerId)
    \/ \E facilityId \in PurchasableFacilities : PurchaseFacility(facilityId)
    \/ CheckAll
    \/ \E id \in ManualUnlocks : UnlockAchievementById(id)
    \/ \E updates \in ProductionUpdates : UpdateProduction(updates)
    \/ ResetCombo

NextPlay ==
    \/ AdvanceClock(MaxElapsed)
    \/ ops < MaxOps /\ PlayStep

SpecPlay == Init /\ [][NextPlay]_vars

\* The play with saved games loaded and the achievement service synchronized.
NextLoad ==
    \/ NextPlay
    \/ ops < MaxOps /\ \E data \in Snapshots : Load(data)
    \/ ops < MaxOps /\ SyncWithGameState

SpecLoad == Init /\ [][NextLoad]_vars

Range(list) == { list[i] : i \in DOMAIN list }

\* C1 (as claimed): a successful sellMatchsticks(amount) lowers matchsticks by
\* exactly amount and raises money by exactly the revenue it returns, the
\* achievement rewards of the same call aside; an unsuccessful one changes
\* neither.
C1_SellMovesAmountAndRevenue ==
    [][Called("sell") =>
        LET r == gameState.resources  r2 == gameState'.resources
        IN  IF ret'.ok
            THEN /\ r2.matchsticks = r.matchsticks - ret'.amount
                 /\ r2.money = r.money + ret'.revenue + ret'.reward
            ELSE r2.matchsticks = r.matchsticks /\ r2.money = r.money]_vars

\* C4: a checkAll called right after a checkAll, with no operation in
\* between, reports nothing, credits nothing and leaves the store as it was.
C4_CheckAllIdempotent ==
    [][(Called("checkAll") /\ ret.op = "checkAll") =>
        /\ ret'.newly = << >>
        /\ ret'.reward = 0
        /\ gameState'.resources.money = gameState.resources.money
        /\ gameState'.achievements.unlocked = gameState.achievements.unlocked
        /\ achievements' = achievements]_vars

\* C4 witness: the second of two checkAll calls in a row reported nothing
\* although an unlocked achievement's requirement is met.
C4_Witness ==
    /\ ret.op = "checkAll" /\ ret.prev = "checkAll" /\ ret.newly = << >>
    /\ \E i \in DOMAIN achievementDefs :
          /\ achievements[achievementDefs[i].id]
          /\ isAchievementMet(achievementDefs[i], gameState)

\* C5: in the play (no reset, no load) every achievement's reward has been
\* credited once if the achievement is unlocked and never otherwise, and no
\* id is twice in the store's unlocked list.
C5_UnlockedAndRewardedOnce ==
    /\ \A id \in AchievementIds :
          rewardCount[id] = IF achievements[id] THEN 1 ELSE 0
    /\ \A i, j \in DOMAIN gameState.achievements.unlocked :
          gameState.achievements.unlocked[i] = gameState.achievements.unlocked[j]
              => i = j

\* C5 witness: unlockAchievementById was refused for an achievement that a
\* produce call had unlocked and rewarded.
C5_Witness ==
    /\ ret.op = "unlockAchievementById" /\ ~ret.ok /\ ret.id = "first_match"
    /\ rewardCount["first_match"] = 1
    /\ gameState.production.totalProduced > 0

\* C6 (as claimed): after checkAll the store's unlocked list holds every id
\* the call reported and every id it held before.
C6_UnlockedListGrows ==
    [][Called("checkAll") =>
        /\ Range(ret'.newly) \subseteq Range(gameState'.achievements.unlocked)
        /\ Range(gameState.achievements.unlocked)
               \subseteq Range(gameState'.achievements.unlocked)]_vars

\* C7 (as claimed): once data whose unlocked list holds an id has been loaded
\* and the service synchronized, a checkAll neither reports nor rewards that
\* id.
C7_NoRetriggerAfterSync ==
    [][(Called("checkAll") /\ synced) =>
        \A id \in loadedUnlocked :
            /\ id \notin Range(ret'.newly)
            /\ rewardCount'[id] = rewardCount[id]]_vars

\* C10 (as claimed): produce(clickCount) with clickCount >= 1 returns
\* produced >= clickCount and raises matchsticks by exactly produced.
C10_ProduceRaisesByProduced ==
    [][(Called("produce") /\ ret'.amount >= 1) =>
        /\ ret'.produced >= ret'.amount
        /\ gameState'.resources.matchsticks =
               gameState.resources.matchsticks + ret'.produced]_vars

\* C10 (amended): produce(clickCount) with clickCount >= 1 returns
\* produced >= clickCount and raises matchsticks by produced, up to MAX_SAFE
\* where the count stops.
C10_ProduceRaisesUpToMax ==
    [][(Called("produce") /\ ret'.amount >= 1) =>
        /\ ret'.produced >= ret'.amount
        /\ gameState'.resources.matchsticks =
               Min2(MAX_SAFE, gameState.resources.matchsticks + ret'.produced)]_vars

\* C10 witness: at a rate of 0.1 a produce call returned one matchstick per
\* click and the count stopped at MAX_SAFE.
C10_Witness ==
    /\ ret.op = "produce" /\ ret.amount >= 1 /\ ret.produced = ret.amount
    /\ gameState.production.manualRate = 1
    /\ gameState.resources.matchsticks = MAX_SAFE

\* C11: sellMatchsticks(amount) with amount <= 0 or amount above the
\* matchsticks held returns success = false and revenue 0 and leaves
\* matchsticks, money, totalSold, totalRevenue, currentPrice and the trade
\* history as they were.
C11_RejectedSaleChangesNothing ==
    [][(Called("sell") /\ (ret'.amount <= 0
                           \/ ret'.amount > gameState.resources.matchsticks)) =>
        /\ ~ret'.ok
        /\ ret'.revenue = 0
        /\ gameState'.resources = gameState.resources
        /\ gameState'.market = gameState.market
        /\ recentTrades' = recentTrades]_vars

\* C11 witness: after a sale that went through, a sale of more than is held
\* was refused, with matchsticks still held and a trade in the history.
C11_Witness ==
    /\ ret.op = "sell" /\ ~ret.ok /\ ret.revenue = 0
    /\ ret.amount > gameState.resources.matchsticks
    /\ gameState.resources.matchsticks > 0
    /\ Len(recentTrades) = 1

\* C12 (as claimed): a successful sellMatchsticks(amount) raises totalSold by
\* exactly amount and totalRevenue by exactly the revenue it returns.
C12_SaleCountedOnce ==
    [][(Called("sell") /\ ret'.ok) =>
        /\ gameState'.market.totalSold = gameState.market.totalSold + ret'.amount
        /\ gameState'.market.totalRevenue =
               gameState.market.totalRevenue + ret'.revenue]_vars

\* ------------------------------------------------------------- the shop
\* Purchases of auto-clickers and facilities, from the new game and from saved
\* games: one with money for every facility, one with the quantum clicker one
\* level below its cap and the fast clicker at level 3, and one with the fast
\* clicker at its cap and nothing else.
Clicker(id, level) ==
    [id |-> id, level |-> level, isActive |-> TRUE, totalClicks |-> 0,
     efficiency |-> 100]

ShopStates ==
    { [createInitialGameState EXCEPT
          !.resources.money = 5000000, !.production.totalProduced = 5000],
      [createInitialGameState EXCEPT
          !.resources.money = 7000000, !.production.totalProduced = 100000,
          !.market.totalRevenue = 1000000,
          !.automation.autoClickers = <<Clicker("quantum_clicker", 4),
                                        Clicker("fast_clicker", 3)>>],
      [createInitialGameState EXCEPT
          !.automation.autoClickers = <<Clicker("fast_clicker", 25)>>] }

NextShop ==
    /\ ops < MaxShopOps
    /\ \/ \E data \in ShopStates : Load(data)
       \/ \E clickerId \in AutoClickerIds \cup {"no_such_clicker"} :
             PurchaseAutoClicker(clickerId)
       \/ \E facilityId \in FacilityIds \cup {"no_such_facility"} :
             PurchaseFacility(facilityId)

SpecShop == Init /\ [][NextShop]_vars

ClickerConfig(id) ==
    autoClickerConfigs[CHOOSE i \in DOMAIN autoClickerConfigs :
                           autoClickerConfigs[i].id = id]

\* The error the four checks of purchaseAutoClicker(id) give in the claimed
\* order from a state, "" when all pass.
FirstFailedCheck(state, id) ==
    IF id \notin AutoClickerIds THEN "Auto-clicker not found"
    ELSE LET config == ClickerConfig(id)
             level  == ClickerLevel(state.automation.autoClickers, id)
         IN  IF level >= config.maxLevel THEN "Maximum level reached"
             ELSE IF (config.reqTotalProduced # 0
                      /\ state.production.totalProduced < config.reqTotalProduced)
                     \/ (config.reqTotalRevenue # 0
                         /\ state.market.totalRevenue < config.reqTotalRevenue)
             THEN "Unlock requirements not met"
             ELSE IF state.resources.money < 100 * calculateAutoClickerCost(config, level)
             THEN "Insufficient funds"
             ELSE ""

\* C13: purchaseAutoClicker(id) returns the error of the first check that
\* fails, in the order exists, level below maxLevel, requirement, funds, and a
\* failed purchase leaves money, autoClickers and totalMoneySpent as they
\* were.
C13_FirstFailingCheck ==
    [][Called("purchaseAutoClicker") =>
        /\ ret'.error = FirstFailedCheck(gameState, ret'.id)
        /\ ret'.ok = (ret'.error = "")
        /\ (~ret'.ok =>
              /\ gameState'.resources.money = gameState.resources.money
              /\ gameState'.automation = gameState.automation)]_vars

\* C13 witness: a purchase of the fast clicker at its cap, with its
\* requirement unmet and no money, was refused for the level.
C13_Witness ==
    /\ ret.op = "purchaseAutoClicker" /\ ~ret.ok /\ ret.id = "fast_clicker"
    /\ ret.error = "Maximum level reached"
    /\ gameState.production.totalProduced < 1000
    /\ gameState.resources.money = 0

\* What a successful purchaseAutoClicker does besides charging its cost: the
\* level goes from L to L + 1 and money and totalMoneySpent move by the cost,
\* the rewards of the same call aside.
PurchaseApplied(cost) ==
    LET level == ClickerLevel(gameState.automation.autoClickers, ret'.id)
    IN  /\ ret'.cost = cost
        /\ ClickerLevel(gameState'.automation.autoClickers, ret'.id) = level + 1
        /\ gameState'.resources.money
               = gameState.resources.money - cost + ret'.reward
        /\ gameState'.automation.totalMoneySpent
               = gameState.automation.totalMoneySpent + cost

\* C14 (as claimed): a successful purchaseAutoClicker(id) at level L charges
\* floor(baseCost * costMultiplier ^ L), sets the level to L + 1 and moves
\* money and totalMoneySpent by exactly that cost.
C14_PurchaseChargesExactCost ==
    [][(Called("purchaseAutoClicker") /\ ret'.ok) =>
        PurchaseApplied(100 * ExactCost(ClickerConfig(ret'.id),
            ClickerLevel(gameState.automation.autoClickers, ret'.id)))]_vars

\* C14 (amended): the same, with the cost as double precision gives it: the
\* exact floor, but 431 for the fast clicker at level 3.
C14_PurchaseChargesDoubleCost ==
    [][(Called("purchaseAutoClicker") /\ ret'.ok) =>
        LET level == ClickerLevel(gameState.automation.autoClickers, ret'.id)
            exact == ExactCost(ClickerConfig(ret'.id), level)
        IN  PurchaseApplied(IF ret'.id = "fast_clicker" /\ level = 3
                            THEN 43100 ELSE 100 * exact)]_vars

\* C14 witness: the basic clicker was bought at level 1 for 57, after the
\* first had cost 50.
C14_Witness ==
    /\ ret.op = "purchaseAutoClicker" /\ ret.ok /\ ret.id = "basic_clicker"
    /\ ret.cost = 5700
    /\ ClickerLevel(gameState.automation.autoClickers, "basic_clicker") = 2
    /\ gameState.automation.totalMoneySpent = 10700

\* C15: no auto-clicker is above its maxLevel and no facility above its
\* maxOwned, and a purchase at the cap fails and changes nothing.
C15_CapsHold ==
    /\ \A i \in DOMAIN gameState.automation.autoClickers :
          LET clicker == gameState.automation.autoClickers[i]
          IN  clicker.level <= ClickerConfig(clicker.id).maxLevel
    /\ \A i \in DOMAIN facilityDefs :
          facilityConfigs[facilityDefs[i].id].owned <= facilityDefs[i].maxOwned

C15_PurchaseAtCapRefused ==
    /\ [][C15_CapsHold]_vars
    /\ [][(Called("purchaseAutoClicker") /\ ret'.id \in AutoClickerIds
           /\ ClickerLevel(gameState.automation.autoClickers, ret'.id)
                 >= ClickerConfig(ret'.id).maxLevel) =>
             ~ret'.ok /\ gameState' = gameState
             /\ facilityConfigs' = facilityConfigs]_vars
    /\ [][(Called("purchaseFacility") /\ ret'.id \in FacilityIds
           /\ \E i \in DOMAIN facilityDefs :
                 /\ facilityDefs[i].id = ret'.id
                 /\ facilityConfigs[ret'.id].owned >= facilityDefs[i].maxOwned) =>
             ~ret'.ok /\ gameState' = gameState
             /\ facilityConfigs' = facilityConfigs]_vars

\* C15 witness: the quantum clicker was bought up to its cap and one more
\* level was refused.
C15_Witness ==
    /\ ret.op = "purchaseAutoClicker" /\ ~ret.ok /\ ret.id = "quantum_clicker"
    /\ ret.prev = "purchaseAutoClicker"
    /\ ret.error = "Maximum level reached"
    /\ ClickerLevel(gameState.automation.autoClickers, "quantum_clicker") = 5
    /\ gameState.automation.totalMoneySpent > 0

\* ------------------------------------------------------- persistence
\* GameStorageService over the Dexie tables.  A table is the set of its
\* records; the primary key id is unique in it.  JSON text is modelled by its
\* structure: the text of a state is the state with every bigint replaced by
\* the tagged object, whose value is the string of decimal digits.
Digits == <<"0", "1", "2", "3", "4", "5", "6", "7", "8", "9">>

\* BigInt.prototype.toString: the decimal digits, as a sequence of characters.
RECURSIVE toString(_)
toString(value) ==
    IF value < 0 THEN <<"-">> \o toString(-value)
    ELSE IF value < 10 THEN <<Digits[value + 1]>>
    ELSE toString(value \div 10) \o <<Digits[(value % 10) + 1]>>

\* BigInt(string)
RECURSIVE BigInt(_)
BigInt(text) ==
    IF Head(text) = "-" THEN -BigInt(Tail(text))
    ELSE LET last == CHOOSE d \in 0..9 : Digits[d + 1] = text[Len(text)]
         IN  IF Len(text) = 1 THEN last
             ELSE 10 * BigInt(SubSeq(text, 1, Len(text) - 1)) + last

\* A replacer that goes through a floating-point number, which keeps the
\* leading bits of the value only.
bigIntReplacerAsNumber(value) ==
    [type |-> "bigint", value |-> toString((value \div 256) * 256)]

\* bigIntReplacer, on a bigint value
bigIntReplacer(value) == [type |-> "bigint", value |-> toString(value)]

\* bigIntReviver, on a tagged object
bigIntReviver(value) == BigInt(value.value)

\* JSON.stringify(gameState, bigIntReplacer).  The bigints of a state are
\* matchsticks, totalProduced, totalSold and every auto-clicker's totalClicks.
stringify(state) ==
    LET clickers == state.automation.autoClickers
    IN  [state EXCEPT
            !.resources.matchsticks = bigIntReplacer(@),
            !.production.totalProduced = bigIntReplacer(@),
            !.market.totalSold = bigIntReplacer(@),
            !.automation.autoClickers =
                [i \in DOMAIN clickers |->
                    [clickers[i] EXCEPT !.totalClicks = bigIntReplacer(@)]]]

\* JSON.parse(text, bigIntReviver)
parse(text) ==
    LET clickers == text.automation.autoClickers
    IN  [text EXCEPT
            !.resources.matchsticks = bigIntReviver(@),
            !.production.totalProduced = bigIntReviver(@),
            !.market.totalSold = bigIntReviver(@),
            !.automation.autoClickers =
                [i \in DOMAIN clickers |->
                    [clickers[i] EXCEPT !.totalClicks = bigIntReviver(@)]]]

\* sanitizeGameState
sanitizeGameState(state) == parse(stringify(state))

\* createChecksum: the SHA-256 digest of the JSON text, modelled by the text
\* itself (two texts have the same digest when they are the same text).
createChecksum(state) == stringify(state)

\* A record whose state is read from the store when the record is built,
\* under the checksum of the state given to saveGame.
GameSaveOfStore(call, timestamp) ==
    [id |-> call.id, name |-> call.name,
     gameState |-> sanitizeGameState(gameState),
     timestamp |-> timestamp,
     version |-> call.gameState.metadata.version,
     checksum |-> <<createChecksum(call.gameState)>>,
     isAutoSave |-> call.isAutoSave]

\* The record saveGame puts.  An optional field is << >> when absent and
\* <<value>> when present.
GameSave(call, timestamp) ==
    [id |-> call.id, name |-> call.name,
     gameState |-> sanitizeGameState(call.gameState),
     timestamp |-> timestamp,
     version |-> call.gameState.metadata.version,
     checksum |-> <<createChecksum(call.gameState)>>,
     isAutoSave |-> call.isAutoSave]

\* db.saves.put: the record replaces the one with its id.
put(table, record) == {r \in table : r.id # record.id} \cup {record}

\* The saves that cleanupAutoSaves reads: those with isAutoSave.
autoSaves(table) == {r \in table : r.isAutoSave}

WithCall(calls, caller, call) ==
    [c \in DOMAIN calls \cup {caller} |-> IF c = caller THEN call ELSE calls[c]]

WithoutCall(calls, caller) ==
    [c \in DOMAIN calls \ {caller} |-> calls[c]]

\* saveGame(gameState, name, isAutoSave) up to its first await: the id and the
\* name are made, createChecksum is pending.
StartSave(caller, request) ==
    /\ caller \notin DOMAIN saving
    /\ caller = "a call" \/ "a call" \in DOMAIN saving
    /\ saveCount < MaxSaves
    /\ saveCount' = saveCount + 1
    /\ saving' = WithCall(saving, caller,
          [pc |-> "checksum", id |-> saveCount + 1,
           gameState |-> request.gameState,
           name |-> IF request.name # "" THEN <<request.name>>
                    ELSE IF request.isAutoSave THEN <<"AutoSave_", now>>
                    ELSE <<"Save_", now>>,
           isAutoSave |-> request.isAutoSave,
           toDelete |-> {}, rotated |-> {}])
    /\ UNCHANGED <<timerVars, gameState, serviceVars, historyVars, now, ops, ret,
                   recentTrades, gameEvents, db, saved>>

\* The checksum is there: the record is built with the time of now and put.
SavePut(caller) ==
    /\ caller \in DOMAIN saving
    /\ saving[caller].pc = "checksum"
    /\ LET call   == saving[caller]
           record == GameSave(call, now)
       IN  /\ db' = [db EXCEPT !.saves = put(@, record)]
           /\ saved' = WithCall(saved, call.id,
                                [gameState |-> call.gameState, record |-> record])
           /\ saving' = [saving EXCEPT ![caller].pc =
                            IF call.isAutoSave THEN "cleanup" ELSE "track"]
    /\ UNCHANGED <<timerVars, gameState, serviceVars, historyVars, now, ops, ret,
                   recentTrades, gameEvents, saveCount>>

\* cleanupAutoSaves, its read: the auto-saves by timestamp, latest first, and
\* those after the fifth are to delete.  Records of one timestamp come in the
\* order of their ids, which are random text: any of them may be kept.
SaveCleanupRead(caller) ==
    /\ caller \in DOMAIN saving
    /\ saving[caller].pc = "cleanup"
    /\ LET autos == autoSaves(db.saves) IN
       IF Cardinality(autos) > 5
       THEN \E toDelete \in SUBSET autos :
               /\ Cardinality(toDelete) = Cardinality(autos) - 5
               /\ \A d \in toDelete : \A k \in autos \ toDelete :
                     d.timestamp <= k.timestamp
               /\ saving' = [saving EXCEPT
                      ![caller].pc = "delete",
                      ![caller].toDelete = {d.id : d \in toDelete}]
       ELSE saving' = [saving EXCEPT ![caller].pc = "track"]
    /\ UNCHANGED <<timerVars, gameState, serviceVars, historyVars, now, ops, ret,
                   recentTrades, gameEvents, db, saveCount, saved>>

\* cleanupAutoSaves, its bulkDelete of the ids read.
SaveCleanupDelete(caller) ==
    /\ caller \in DOMAIN saving
    /\ saving[caller].pc = "delete"
    /\ LET gone == {r \in db.saves : r.id \in saving[caller].toDelete}
       IN  /\ db' = [db EXCEPT !.saves = @ \ gone]
           /\ saving' = [saving EXCEPT ![caller].pc = "track",
                                       ![caller].rotated = gone]
    /\ UNCHANGED <<timerVars, gameState, serviceVars, historyVars, now, ops, ret,
                   recentTrades, gameEvents, saveCount, saved>>

\* trackEvent writes to the analytics table only; saveGame returns the id.
SaveDone(caller) ==
    /\ caller \in DOMAIN saving
    /\ saving[caller].pc = "track"
    /\ saving' = WithoutCall(saving, caller)
    /\ ret' = [NoRet EXCEPT !.prev = ret.op, !.op = "saveGame",
                            !.saveId = saving[caller].id,
                            !.isAutoSave = saving[caller].isAutoSave,
                            !.rotated = saving[caller].rotated]
    /\ ops' = ops + 1
    /\ UNCHANGED <<timerVars, gameState, serviceVars, historyVars, now,
                   recentTrades, gameEvents, db, saveCount, saved>>

\* A load that skips the comparison.
verifyChecksumSkipped(gameSave) == TRUE

\* The comparison of loadGame: a record without a checksum is not verified.
verifyChecksum(gameSave) ==
    \/ gameSave.checksum = << >>
    \/ createChecksum(gameSave.gameState) = gameSave.checksum[1]

\* GameStorageService.loadGame: the state of the record, or none (<< >>) when
\* there is no record or its checksum does not match.
loadGame(database, saveId) ==
    IF \A r \in database.saves : r.id # saveId THEN << >>
    ELSE LET gameSave == CHOOSE r \in database.saves : r.id = saveId
         IN  IF verifyChecksum(gameSave) THEN <<gameSave.gameState>> ELSE << >>

LoadGame(saveId) ==
    /\ ret' = [NoRet EXCEPT !.prev = ret.op, !.op = "loadGame", !.saveId = saveId,
                            !.loaded = loadGame(db, saveId)]
    /\ ops' = ops + 1
    /\ UNCHANGED <<timerVars, gameState, serviceVars, historyVars, now,
                   recentTrades, gameEvents, storageVars>>

\* GameManager.loadGame: the state loaded replaces the store and game_loaded
\* is emitted; none loaded, nothing is done and false is returned.
ManagerLoadGame(saveId) ==
    LET result == loadGame(db, saveId) IN
    /\ IF result # << >>
       THEN /\ gameState' = load(gameState, result[1])
            /\ loadedUnlocked' = { result[1].achievements.unlocked[i] :
                                      i \in DOMAIN result[1].achievements.unlocked }
            /\ synced' = FALSE
            /\ gameEvents' = emitAll(gameEvents, <<Event("state_loaded", ""),
                                                   Event("game_loaded", "")>>)
       ELSE UNCHANGED <<gameState, loadedUnlocked, synced, gameEvents>>
    /\ ret' = [NoRet EXCEPT !.prev = ret.op, !.op = "managerLoadGame",
                            !.saveId = saveId, !.ok = (result # << >>),
                            !.loaded = result]
    /\ ops' = ops + 1
    /\ UNCHANGED <<timerVars, serviceVars, rewardCount, now, recentTrades, storageVars>>

\* exportData: the text of the three tables.  A bundle's text may be
\* malformed, and names the tables it has.
exportData(database) ==
    [wellFormed |-> TRUE, version |-> "1.0.0",
     tables |-> {"saves", "settings", "achievements"},
     saves |-> {[r EXCEPT !.gameState = stringify(@)] : r \in database.saves},
     settings |-> database.settings,
     achievements |-> database.achievements]

\* JSON.parse(dataJson, bigIntReviver) of a well-formed bundle
parseBundle(text) ==
    [text EXCEPT !.saves = {[r EXCEPT !.gameState = parse(@)] : r \in text.saves}]

\* bulkAdd fails when two records have one primary key.
bulkAddFails(records) ==
    \E r1 \in records : \E r2 \in records : r1 # r2 /\ r1.id = r2.id

\* An abort that leaves what the transaction had written.
rollbackKeepingWrites(database, written) == written

\* The abort of the Dexie transaction: the tables are as before it.
rollback(database, written) == database

\* importData: true and the tables after it, or false when it throws.
importData(database, text) ==
    IF ~text.wellFormed THEN [ok |-> FALSE, db |-> database]
    ELSE LET data == parseBundle(text)
             has(t) == t \in data.tables
         IN
         IF data.version = "" \/ ~has("saves")
         THEN [ok |-> FALSE, db |-> database]
         ELSE LET afterSaves == [database EXCEPT !.saves = data.saves]
                  afterSettings ==
                      IF has("settings")
                      THEN [afterSaves EXCEPT !.settings = data.settings]
                      ELSE afterSaves
                  afterAchievements ==
                      IF has("achievements")
                      THEN [afterSettings EXCEPT !.achievements = data.achievements]
                      ELSE afterSettings
              IN
              IF bulkAddFails(data.saves)
              THEN [ok |-> FALSE,
                    db |-> rollback(database, [database EXCEPT !.saves = {}])]
              ELSE IF has("settings") /\ bulkAddFails(data.settings)
              THEN [ok |-> FALSE,
                    db |-> rollback(database, [afterSaves EXCEPT !.settings = {}])]
              ELSE IF has("achievements") /\ bulkAddFails(data.achievements)
              THEN [ok |-> FALSE,
                    db |-> rollback(database,
                                    [afterSettings EXCEPT !.achievements = {}])]
              ELSE [ok |-> TRUE, db |-> afterAchievements]

ImportData(text) ==
    LET r == importData(db, text) IN
    /\ db' = r.db
    /\ ret' = [NoRet EXCEPT !.prev = ret.op, !.op = "importData", !.ok = r.ok,
                            !.bundle = <<text>>]
    /\ ops' = ops + 1
    /\ UNCHANGED <<timerVars, gameState, serviceVars, historyVars, now,
                   recentTrades, gameEvents, saving, saveCount, saved>>

\* The states given to saveGame: the new game, and a game whose bigints are
\* large and odd.
LargeState ==
    [createInitialGameState EXCEPT
        !.resources.matchsticks = 100001, !.resources.money = 1000,
        !.production.totalProduced = MAX_SAFE, !.market.totalSold = 31070,
        !.automation.autoClickers = <<[Clicker("basic_clicker", 1)
                                          EXCEPT !.totalClicks = 777]>>]

SaveRequests ==
    { [gameState |-> createInitialGameState, name |-> "", isAutoSave |-> TRUE],
      [gameState |-> LargeState, name |-> "", isAutoSave |-> TRUE],
      [gameState |-> LargeState, name |-> "slot 1", isAutoSave |-> FALSE] }

\* A backup of an earlier session: five auto-saves and a manual save, a
\* setting and an achievement.
EarlierSave(id, timestamp, isAutoSave) ==
    [id |-> id, name |-> <<"earlier">>,
     gameState |-> stringify(createInitialGameState),
     timestamp |-> timestamp, version |-> "1.0.0",
     checksum |-> <<createChecksum(createInitialGameState)>>,
     isAutoSave |-> isAutoSave]

EarlierBackup ==
    [wellFormed |-> TRUE, version |-> "1.0.0",
     tables |-> {"saves", "settings", "achievements"},
     saves |-> {EarlierSave(100 + i, 1000 * i, TRUE) : i \in 1..5}
                  \cup {EarlierSave(100, 500, FALSE)},
     settings |-> {[id |-> "theme", value |-> "dark"]},
     achievements |-> {[id |-> "first_match", unlockedAt |-> 900]}]

\* What an edit of a backup's text does to a save: the matchsticks changed
\* and the checksum left, or the matchsticks changed and the checksum removed.
Edited(record, keepChecksum) ==
    [record EXCEPT !.gameState.resources.matchsticks = bigIntReplacer(242),
                   !.checksum = IF keepChecksum THEN @ ELSE << >>]

\* The texts given to importData: the backup of now, whole or edited; the
\* earlier backup, whole, with its saves only, without its version, without
\* its saves, with a setting twice; and text that is no JSON.
Bundles(database) ==
    LET current == exportData(database) IN
    { current,
      [current EXCEPT !.saves = {Edited(r, TRUE) : r \in @}],
      [current EXCEPT !.saves = {Edited(r, FALSE) : r \in @}],
      EarlierBackup,
      [EarlierBackup EXCEPT !.tables = {"saves"}],
      [EarlierBackup EXCEPT !.version = ""],
      [EarlierBackup EXCEPT !.tables = {"settings", "achievements"}],
      [EarlierBackup EXCEPT !.settings = @ \cup {[id |-> "theme", value |-> "light"]}],
      [EarlierBackup EXCEPT !.wellFormed = FALSE] }

\* Two calls of saveGame may be in flight at a time; the second is one
\* made while the first is suspended.
Callers == {"a call", "an overlapping call"}

SaveSteps(caller) ==
    \/ \E request \in SaveRequests : StartSave(caller, request)
    \/ SavePut(caller)
    \/ SaveCleanupRead(caller)
    \/ SaveCleanupDelete(caller)
    \/ SaveDone(caller)

\* Saves one at a time, loads and imports.
NextStorage ==
    \/ SaveSteps("a call")
    \/ /\ ops < MaxStorageOps
       /\ \/ \E saveId \in {r.id : r \in db.saves} \cup {0} :
                LoadGame(saveId) \/ ManagerLoadGame(saveId)
          \/ \E text \in Bundles(db) : ImportData(text)

SpecStorage == Init /\ [][NextStorage]_vars

\* Saves that overlap, after the earlier backup was imported or without it,
\* while time passes.
NextRotation ==
    \/ AdvanceClock(MaxElapsed)
    \/ \E caller \in Callers : SaveSteps(caller)
    \/ ops = 0 /\ saveCount = 0 /\ ImportData(EarlierBackup)

SpecRotation == Init /\ [][NextRotation]_vars

\* The record of the saves table with an id, in a set: empty when none.
RecordsWithId(table, saveId) == {r \in table : r.id = saveId}

\* C16: loadGame of a record that saveGame put returns a state equal to the
\* one given to saveGame, its bigints (matchsticks, totalProduced, totalSold)
\* exactly.
C16_LoadReturnsSavedState ==
    [][(/\ Called("loadGame")
        /\ ret'.saveId \in DOMAIN saved
        /\ saved[ret'.saveId].record \in db.saves) =>
            ret'.loaded = <<saved[ret'.saveId].gameState>>]_vars

\* C16 witness: the state with large odd bigints was saved and loaded.
C16_Witness ==
    /\ ret.op = "loadGame" /\ ret.saveId \in DOMAIN saved
    /\ saved[ret.saveId].record \in db.saves
    /\ ret.loaded = <<LargeState>>
    /\ ret.loaded[1].resources.matchsticks = 100001
    /\ ret.loaded[1].production.totalProduced = MAX_SAFE

\* What both loads do with a record they reject.
Rejected ==
    /\ ret'.loaded = << >>
    /\ Called("managerLoadGame") => ~ret'.ok /\ gameState' = gameState

\* C17 (as claimed): a load of a record whose stored state does not hash to
\* the checksum computed when it was saved returns none, and GameManager's
\* loadGame of it returns false and leaves the store as it was.
C17_AlteredStateRejected ==
    [][(/\ Called("loadGame") \/ Called("managerLoadGame")
        /\ ret'.saveId \in DOMAIN saved
        /\ \E r \in RecordsWithId(db.saves, ret'.saveId) :
              createChecksum(r.gameState) # saved[r.id].record.checksum[1])
       => Rejected]_vars

\* C17 (amended): the same of a record that carries a checksum its stored
\* state does not hash to.
C17_ChecksumMismatchRejected ==
    [][(/\ Called("loadGame") \/ Called("managerLoadGame")
        /\ \E r \in RecordsWithId(db.saves, ret'.saveId) :
              /\ r.checksum # << >>
              /\ createChecksum(r.gameState) # r.checksum[1])
       => Rejected]_vars

\* C17 witness: GameManager's loadGame of a save whose state was altered
\* after the save returned false; the store holds another state.
C17_Witness ==
    /\ ret.op = "managerLoadGame" /\ ~ret.ok /\ ret.saveId \in DOMAIN saved
    /\ \E r \in RecordsWithId(db.saves, ret.saveId) :
          /\ r.checksum = saved[r.id].record.checksum
          /\ createChecksum(r.gameState) # r.checksum[1]
          /\ r.gameState # gameState

\* C18: when a saveGame with isAutoSave completes, at most 5 auto-saves
\* remain, none older than a record it deleted, and it deleted auto-saves
\* only.
C18_AutoSavesRotated ==
    [][(Called("saveGame") /\ ret'.isAutoSave) =>
        /\ Cardinality(autoSaves(db'.saves)) <= 5
        /\ \A d \in ret'.rotated :
              /\ d.isAutoSave
              /\ \A k \in autoSaves(db'.saves) : d.timestamp <= k.timestamp]_vars

\* C19: importData is all or nothing.  Text that is no JSON, that has no
\* version or no saves, or that has two records of one id fails; a failed
\* import leaves the three tables as they were; after a successful one every
\* table of the bundle holds the bundle's records and the others are as they
\* were.
C19_ImportAllOrNothing ==
    [][Called("importData") =>
        LET text == ret'.bundle[1]
            records(t) == IF t = "saves"
                          THEN {[r EXCEPT !.gameState = parse(@)] : r \in text.saves}
                          ELSE text[t]
        IN  /\ (\/ ~text.wellFormed
                \/ text.version = ""
                \/ "saves" \notin text.tables
                \/ \E t \in text.tables : \E r1 \in text[t] : \E r2 \in text[t] :
                      r1 # r2 /\ r1.id = r2.id) => ~ret'.ok
            /\ ~ret'.ok => db' = db
            /\ ret'.ok => \A t \in DOMAIN db :
                             db'[t] = IF t \in text.tables THEN records(t) ELSE db[t]]_vars

\* C19 witness: an import failed at an insert, after the saves table had been
\* cleared and filled in the transaction; the table holds the earlier save.
C19_Witness ==
    /\ ret.op = "importData" /\ ~ret.ok
    /\ ret.bundle[1].wellFormed /\ ret.bundle[1].version # ""
    /\ "saves" \in ret.bundle[1].tables
    /\ ~bulkAddFails(ret.bundle[1].saves)
    /\ db.saves # {}
    /\ \A r \in db.saves : r.id \in DOMAIN saved

\* ------------------------------------------------------ the event log
\* gameActions.emitEvent, called as gameState.test.ts calls it: the n-th
\* event carries n.
EmitEvent(event) ==
    /\ gameEvents' = emitEvent(gameEvents, event)
    /\ ret' = [NoRet EXCEPT !.prev = ret.op, !.op = "emitEvent", !.event = <<event>>]
    /\ ops' = ops + 1
    /\ UNCHANGED <<timerVars, gameState, serviceVars, historyVars, now, recentTrades,
                   storageVars>>

\* A reset that leaves the events.
ResetStateOnly ==
    /\ gameState' = createInitialGameState
    /\ ret' = [NoRet EXCEPT !.prev = ret.op, !.op = "reset"]
    /\ ops' = ops + 1
    /\ UNCHANGED <<timerVars, gameEvents, serviceVars, historyVars, now, recentTrades,
                   storageVars>>

\* gameActions.reset
Reset ==
    /\ gameState' = createInitialGameState
    /\ gameEvents' = << >>
    /\ ret' = [NoRet EXCEPT !.prev = ret.op, !.op = "reset"]
    /\ ops' = ops + 1
    /\ UNCHANGED <<timerVars, serviceVars, historyVars, now, recentTrades, storageVars>>

NextEvents ==
    /\ ops < MaxEvents
    /\ \/ EmitEvent(Event("test_event", ops))
       \/ Reset

SpecEvents == Init /\ [][NextEvents]_vars

\* C20: the event log never holds more than 100 events; emitEvent puts the
\* new event first, the others follow in the order they had, and the last is
\* dropped when the log held 100.
C20_LogNewestFirstAtMost100 ==
    /\ [](Len(gameEvents) <= 100)
    /\ [][Called("emitEvent") =>
            /\ gameEvents'[1] = ret'.event[1]
            /\ Len(gameEvents') = IF Len(gameEvents) = 100 THEN 100
                                  ELSE Len(gameEvents) + 1
            /\ \A i \in 2..Len(gameEvents') : gameEvents'[i] = gameEvents[i - 1]]_vars

\* C20 witness: the log held 100 events, one more was emitted, and the
\* oldest was dropped.
C20_Witness ==
    /\ ret.op = "emitEvent" /\ ret.prev = "emitEvent"
    /\ Len(gameEvents) = 100
    /\ gameEvents[1] = ret.event[1]
    /\ gameEvents[1].key - gameEvents[100].key = 99
    /\ ops - gameEvents[100].key = 100
    /\ gameEvents[100].key > 0

\* ------------------------------------------------------------ the store
\* Loads of every kind, and resets, between productions and sales.  The
\* timestamps of metadata are not in the model.
\*
\* Partial updates besides those of Snapshots: the one of gameState.test.ts;
\* fields of market and automation; a multipliers object; an unsafe count, a
\* negative amount and an object outside the four that load merges.
Partials ==
    { [resources  |-> [matchsticks |-> 500, money |-> 10000],
       production |-> [manualRate |-> 30]],
      [market     |-> [currentPrice |-> 250],
       automation |-> [totalMoneySpent |-> 500]],
      [production |-> [multipliers |-> ("upgrade" :> 200)]],
      [resources   |-> [matchsticks |-> MAX_SAFE + 1, wood |-> -5],
       progression |-> [currentPhase |-> "automation"]] }

\* The numbers that arrive as strings of digits.
EncodedValues == {-5, 0, 1000, MAX_SAFE, MAX_SAFE + 1}

\* Data whose matchsticks is a string: a partial update as in
\* gameState.test.ts ('1000' as any), and a full state.
EncodedData ==
    { [resources |-> [matchsticks |-> toString(n), money |-> -100]] :
          n \in EncodedValues }
    \cup
    { [createInitialGameState EXCEPT
          !.resources.matchsticks = toString(n), !.resources.wood = 7,
          !.production.totalProduced = 1000] : n \in EncodedValues }

\* A validation that counts a string of digits as unsafe.
coerceMatchsticksNot(data) ==
    [data EXCEPT !.resources.matchsticks = MAX_SAFE + 1]

\* validateAndSanitizeState on a matchsticks of type string: BigInt(string).
\* The merge of a partial update copies the string as it is, so that the
\* conversion is the same before it.
coerceMatchsticks(data) ==
    [data EXCEPT !.resources.matchsticks = BigInt(@)]

\* gameActions.load(data) of data whose matchsticks is a string
LoadEncoded(data) ==
    /\ gameState' = load(gameState, coerceMatchsticks(data))
    /\ loadedUnlocked' = IF "achievements" \in DOMAIN data
                         THEN { data.achievements.unlocked[i] :
                                   i \in DOMAIN data.achievements.unlocked }
                         ELSE {}
    /\ synced' = FALSE
    /\ ret' = [NoRet EXCEPT !.prev = ret.op, !.op = "load", !.data = <<data>>,
                            !.id = "string"]
    /\ ops' = ops + 1
    /\ gameEvents' = emitEvent(gameEvents, Event("state_loaded", ""))
    /\ UNCHANGED <<timerVars, serviceVars, rewardCount, now, recentTrades, storageVars>>

NextStore ==
    /\ ops < MaxStoreOps
    /\ \/ Produce(1)
       \/ Sell(1)
       \/ PurchaseAutoClicker("basic_clicker")
       \/ \E data \in Snapshots \cup Partials : Load(data)
       \/ \E data \in EncodedData : LoadEncoded(data)
       \/ Reset

SpecStore == Init /\ [][NextStore]_vars

MergedObjects == {"resources", "production", "market", "automation"}

IsFull(data) ==
    {"metadata", "resources", "production", "market"} \subseteq DOMAIN data

\* What the validation makes of a resource: an unsafe count is 0, a negative
\* amount is 0.
Clamped(field, value) ==
    IF field = "matchsticks"
    THEN IF value >= 0 /\ value <= MAX_SAFE THEN value ELSE 0
    ELSE IF value < 0 THEN 0 ELSE value

C22_LoadedResourcesSane ==
    [][Called("load") =>
        /\ gameState'.resources.matchsticks \in 0..MAX_SAFE
        /\ gameState'.resources.money >= 0
        /\ gameState'.resources.wood >= 0
        /\ gameState'.resources.reputation >= 0
        /\ ret'.id = "string" =>
              \A n \in EncodedValues \cap 0..MAX_SAFE :
                 toString(n) = ret'.data[1].resources.matchsticks
                    => gameState'.resources.matchsticks = n]_vars

\* C22 witness: a partial update with '1000' and a negative money was
\* loaded: matchsticks is 1000, money is 0.
C22_Witness ==
    /\ ret.op = "load" /\ ret.id = "string"
    /\ ~IsFull(ret.data[1])
    /\ ret.data[1].resources.matchsticks = <<"1", "0", "0", "0">>
    /\ ret.data[1].resources.money < 0
    /\ gameState.resources.matchsticks = 1000
    /\ gameState.resources.money = 0

\* C23: reset sets every object of the state to its default (no resources,
\* manualRate 1, price 1, no auto-clickers, no unlocked achievement) and
\* empties the events, whatever the state was.
C23_ResetToDefault ==
    [][Called("reset") =>
        /\ gameState'.resources =
              [matchsticks |-> 0, money |-> 0, wood |-> 0, reputation |-> 0]
        /\ gameState'.production.manualRate = 10
        /\ gameState'.production.totalProduced = 0
        /\ DOMAIN gameState'.production.multipliers = {}
        /\ gameState'.market.currentPrice = 100
        /\ gameState'.market.basePrice = 100
        /\ gameState'.market.totalSold = 0
        /\ gameState'.market.totalRevenue = 0
        /\ ~gameState'.market.autoSellEnabled
        /\ gameState'.automation.autoClickers = << >>
        /\ ~gameState'.automation.autoSellSettings.enabled
        /\ gameState'.automation.totalMoneySpent = 0
        /\ gameState'.achievements.unlocked = << >>
        /\ gameState'.achievements.totalUnlocked = 0
        /\ gameState'.progression.currentPhase = "manual"
        /\ gameEvents' = << >>]_vars

\* C23 witness: a reset of a game that had produced, sold and logged events.
C23_Witness ==
    /\ ret.op = "reset" /\ ret.prev = "sell"
    /\ gameState = createInitialGameState
    /\ gameEvents = << >>
    /\ recentTrades # << >>

\* ------------------------------------------------- the automation ticks
\* The four intervals of startAutomation.  A timer fires while its interval
\* is set.  processAutoClickers and processAutoSell are async: each reads the
\* store, suspends at its await import(...), and goes on when the import has
\* resolved; a tick suspended there is in ticks, and other callbacks run in
\* between.  At most one tick of an interval is suspended at a time.
autoProductionFrequency == 1000
maintenanceFrequency == 5000

\* Math.floor(baseClicksPerSecond * (autoClickFrequency / 1000) * level *
\* efficiency), efficiency in hundredths.
actualClicks(clicker) ==
    LET config == autoClickerConfigs[CHOOSE i \in DOMAIN autoClickerConfigs :
                                         autoClickerConfigs[i].id = clicker.id]
    IN  (config.baseClicksPerSecond * clicker.level * clicker.efficiency) \div 100

\* The next clicker of the list, from position from on, that the loop of
\* processAutoClickers awaits for: active and with actualClicks > 0.  0 when
\* the loop ends.
nextClicker(clickers, from) ==
    LET awaited == { i \in DOMAIN clickers :
                        i >= from /\ clickers[i].isActive /\ actualClicks(clickers[i]) > 0 }
    IN  IF awaited = {} THEN 0 ELSE CHOOSE i \in awaited : \A j \in awaited : i <= j

\* AutomationService.stopAutomation
StopAutomation ==
    /\ intervals' = {}
    /\ ret' = [NoRet EXCEPT !.prev = ret.op, !.op = "stopAutomation"]
    /\ ops' = ops + 1
    /\ UNCHANGED <<gameState, serviceVars, historyVars, now, recentTrades,
                   gameEvents, storageVars, ticks, timeouts>>

\* The auto-click timer fires: processAutoClickers up to its first await.
AutoClickTick ==
    /\ "autoClick" \in intervals
    /\ "autoClick" \notin DOMAIN ticks
    /\ LET index == nextClicker(gameState.automation.autoClickers, 1)
       IN  ticks' = IF index = 0 THEN ticks
                    ELSE WithCall(ticks, "autoClick",
                                  [currentState |-> gameState, index |-> index,
                                   amount |-> 0])
    /\ ret' = [NoRet EXCEPT !.prev = ret.op, !.op = "autoClickTick"]
    /\ ops' = ops + 1
    /\ UNCHANGED <<gameState, serviceVars, historyVars, now, recentTrades,
                   gameEvents, storageVars, intervals, timeouts>>

\* processAutoClickers after an await: the clicks go through
\* produceMatchsticks, then the list of clickers read when the tick began,
\* with this clicker's totalClicks raised, is written to the store; the loop
\* goes on to its next await or ends.
AutoClickResume ==
    /\ "autoClick" \in DOMAIN ticks
    /\ LET tick     == ticks["autoClick"]
           clickers == tick.currentState.automation.autoClickers
           clicker  == clickers[tick.index]
           clicks   == actualClicks(clicker)
           r        == produceMatchsticks(gameState, clickCombo, lastClickTime,
                                          achievements, rewardCount, clicks, now)
           updatedClickers ==
               [i \in DOMAIN clickers |->
                   IF clickers[i].id = clicker.id
                   THEN [clickers[i] EXCEPT
                            !.totalClicks = SafeBigInt_add(@, clicks)]
                   ELSE clickers[i]]
           index    == nextClicker(clickers, tick.index + 1)
       IN  /\ gameState' = updateAutomation(r.state, [autoClickers |-> updatedClickers])
           /\ clickCombo' = r.clickCombo
           /\ lastClickTime' = r.lastClickTime
           /\ achievements' = r.flags
           /\ rewardCount' = r.counts
           /\ gameEvents' = emitAll(gameEvents,
                  <<Event("manual_production", "")>> \o achievementEvents(r.newly))
           /\ ticks' = IF index = 0 THEN WithoutCall(ticks, "autoClick")
                       ELSE WithCall(ticks, "autoClick", [tick EXCEPT !.index = index])
           /\ ret' = [NoRet EXCEPT !.prev = ret.op, !.op = "processAutoClickers",
                                   !.id = clicker.id, !.amount = clicks,
                                   !.produced = r.produced, !.newly = r.newly,
                                   !.reward = r.reward]
    /\ ops' = ops + 1
    /\ UNCHANGED <<facilityConfigs, now, loadedUnlocked, synced, recentTrades,
                   storageVars, intervals, timeouts>>

\* processAutoProduction: the sum over the facilities of
\* divide(multiply(multiply(baseProduction, owned), frequency), 1000).
totalProduction(facilities) ==
    LET perInterval(i) ==
            SafeBigInt_divide(
                SafeBigInt_multiply(
                    SafeBigInt_multiply(facilityDefs[i].baseProduction,
                                        facilities[facilityDefs[i].id].owned),
                    autoProductionFrequency),
                1000)
    IN  SafeBigInt_add(SafeBigInt_add(SafeBigInt_add(0, perInterval(1)),
                                      perInterval(2)), perInterval(3))

\* The auto-production timer fires.
AutoProductionTick ==
    /\ "autoProduction" \in intervals
    /\ LET total == totalProduction(facilityConfigs)
           added == addResources(gameState, [NoResources EXCEPT !.matchsticks = total])
       IN  /\ gameState' =
                  IF total > 0
                  THEN updateProduction(added,
                           [totalProduced |->
                               SafeBigInt_add(added.production.totalProduced, total)])
                  ELSE gameState
           /\ ret' = [NoRet EXCEPT !.prev = ret.op, !.op = "processAutoProduction",
                                   !.produced = total]
    /\ ops' = ops + 1
    /\ UNCHANGED <<serviceVars, historyVars, now, recentTrades, gameEvents,
                   storageVars, timerVars>>

\* AutomationService.configureAutoSell(config).  threshold and maxPerSecond
\* are bigints, percentage a whole number of percent, minPrice in cents.
configureAutoSell(state, config) ==
    IF config.threshold <= 0 \/ config.percentage <= 0 \/ config.percentage > 100
    THEN [ok |-> FALSE, state |-> state]
    ELSE IF config.minPrice < 0 \/ config.maxPerSecond <= 0
    THEN [ok |-> FALSE, state |-> state]
    ELSE [ok |-> TRUE,
          state |-> updateAutomation(
              updateMarket(state, [autoSellEnabled |-> config.enabled,
                                   autoSellThreshold |-> config.threshold]),
              [autoSellSettings |->
                  [threshold |-> config.threshold, percentage |-> config.percentage,
                   minPrice |-> config.minPrice, maxPerSecond |-> config.maxPerSecond,
                   enabled |-> config.enabled]])]

ConfigureAutoSell(config) ==
    LET r == configureAutoSell(gameState, config)
    IN  /\ gameState' = r.state
        /\ ret' = [NoRet EXCEPT !.prev = ret.op, !.op = "configureAutoSell",
                                !.ok = r.ok, !.data = <<config>>]
        /\ ops' = ops + 1
        /\ UNCHANGED <<serviceVars, historyVars, now, recentTrades, gameEvents,
                       storageVars, timerVars>>

\* processAutoSell up to its await: the amount it goes on to sell, 0 when it
\* returns before.
limitedAmount(state) ==
    LET autoSellSettings == state.automation.autoSellSettings
        currentMatchsticks == state.resources.matchsticks
    IN  IF ~autoSellSettings.enabled \/ ~state.market.autoSellEnabled THEN 0
        ELSE IF currentMatchsticks < autoSellSettings.threshold THEN 0
        ELSE IF state.market.currentPrice < autoSellSettings.minPrice THEN 0
        ELSE LET amountToSell ==
                     SafeBigInt_divide(
                         SafeBigInt_multiply(currentMatchsticks,
                                             autoSellSettings.percentage), 100)
             IN  IF amountToSell > autoSellSettings.maxPerSecond
                 THEN autoSellSettings.maxPerSecond ELSE amountToSell

\* The auto-sell timer fires: processAutoSell up to its await.
AutoSellTick ==
    /\ "autoSell" \in intervals
    /\ "autoSell" \notin DOMAIN ticks
    /\ LET amount == limitedAmount(gameState)
       IN  /\ ticks' = IF amount > 0
                       THEN WithCall(ticks, "autoSell",
                                     [currentState |-> gameState, index |-> 0,
                                      amount |-> amount])
                       ELSE ticks
           /\ ret' = [NoRet EXCEPT !.prev = ret.op, !.op = "autoSellTick",
                                   !.amount = amount]
    /\ ops' = ops + 1
    /\ UNCHANGED <<gameState, serviceVars, historyVars, now, recentTrades,
                   gameEvents, storageVars, intervals, timeouts>>

\* processAutoSell after its await: marketService.sellMatchsticks(limitedAmount)
\* on the store as it is by then.
AutoSellResume ==
    /\ "autoSell" \in DOMAIN ticks
    /\ LET amount == ticks["autoSell"].amount
           r == sellMatchsticks(gameState, recentTrades, achievements, rewardCount, amount)
       IN  /\ gameState' = r.state
           /\ achievements' = r.flags
           /\ rewardCount' = r.counts
           /\ recentTrades' = r.trades
           /\ gameEvents' = emitAll(gameEvents, r.events)
           /\ ret' = [NoRet EXCEPT !.prev = ret.op, !.op = "processAutoSell",
                                   !.ok = r.ok, !.amount = amount,
                                   !.revenue = r.revenue, !.newly = r.newly,
                                   !.reward = r.reward]
    /\ ticks' = WithoutCall(ticks, "autoSell")
    /\ ops' = ops + 1
    /\ UNCHANGED <<clickCombo, lastClickTime, facilityConfigs, now, loadedUnlocked,
                   synced, storageVars, intervals, timeouts>>

\* The upkeep of one maintenance interval, in cents: the sum of
\* maintenanceCost * owned, times maintenanceFrequency / 1000.
maintenancePerInterval(facilities) ==
    LET cost(i) == facilityDefs[i].maintenanceCost * facilities[facilityDefs[i].id].owned
    IN  100 * (0 + cost(1) + cost(2) + cost(3)) * (maintenanceFrequency \div 1000)

\* A reduction without the floor of 10%.
reduceFacilityEfficiencyUnbounded(facilities) ==
    [id \in DOMAIN facilities |-> [facilities[id] EXCEPT !.efficiency = @ - 5]]

\* reduceFacilityEfficiency: Math.max(0.1, efficiency - 0.05) for every
\* facility, in hundredths.
reduceFacilityEfficiency(facilities) ==
    [id \in DOMAIN facilities |->
        [facilities[id] EXCEPT !.efficiency = Max2(10, @ - 5)]]

\* The maintenance timer fires: processMaintenance.
MaintenanceTick ==
    /\ "maintenance" \in intervals
    /\ LET upkeep == maintenancePerInterval(facilityConfigs)
           paid   == upkeep > 0 /\ gameState.resources.money >= upkeep
           unpaid == upkeep > 0 /\ ~(gameState.resources.money >= upkeep)
       IN  /\ gameState' =
                  IF paid
                  THEN addResources(gameState, [NoResources EXCEPT !.money = -upkeep])
                  ELSE gameState
           /\ facilityConfigs' =
                  IF unpaid THEN reduceFacilityEfficiency(facilityConfigs)
                  ELSE facilityConfigs
           /\ gameEvents' =
                  IF unpaid
                  THEN emitEvent(gameEvents, Event("maintenance_required", ""))
                  ELSE gameEvents
           /\ ret' = [NoRet EXCEPT !.prev = ret.op, !.op = "processMaintenance",
                                   !.ok = ~unpaid, !.cost = upkeep]
    /\ ops' = ops + 1
    /\ UNCHANGED <<clickCombo, lastClickTime, achievements, historyVars, now,
                   recentTrades, storageVars, timerVars>>

\* Saved games the runs of the ticks begin with: two auto-clickers and auto-sell
\* configured (half of the holdings, at most 500 a tick, from 500 matchsticks
\* and a price of 0.95 on), and a game with money only.
TickStates ==
    { [createInitialGameState EXCEPT
          !.resources.matchsticks = 1200, !.resources.money = 60000,
          !.production.totalProduced = 5000,
          !.market.autoSellEnabled = TRUE, !.market.autoSellThreshold = 500,
          !.automation.autoSellSettings =
              [threshold |-> 500, percentage |-> 50, minPrice |-> 95,
               maxPerSecond |-> 500, enabled |-> TRUE],
          !.automation.autoClickers = <<Clicker("basic_clicker", 2),
                                        Clicker("fast_clicker", 1)>>],
      [createInitialGameState EXCEPT
          !.resources.matchsticks = 300, !.resources.money = 51000,
          !.production.totalProduced = 5000] }

AutoSellConfigs ==
    { [threshold |-> 200, percentage |-> 25, minPrice |-> 50, maxPerSecond |-> 1000,
       enabled |-> TRUE],
      [threshold |-> 200, percentage |-> 25, minPrice |-> 50, maxPerSecond |-> 1000,
       enabled |-> FALSE],
      [threshold |-> 200, percentage |-> 100, minPrice |-> 150, maxPerSecond |-> 1000,
       enabled |-> TRUE],
      [threshold |-> 0, percentage |-> 25, minPrice |-> 50, maxPerSecond |-> 1000,
       enabled |-> TRUE] }

TimerSteps ==
    \/ AutoClickTick
    \/ AutoClickResume
    \/ AutoProductionTick
    \/ AutoSellTick
    \/ AutoSellResume
    \/ MaintenanceTick

NextTicks ==
    /\ ops < MaxTickOps
    /\ \/ ops = 0 /\ \E data \in TickStates : Load(data)
       \/ \E config \in AutoSellConfigs : ConfigureAutoSell(config)
       \/ Sell(400)
       \/ PurchaseAutoClicker("basic_clicker")
       \/ PurchaseFacility("basic_factory")
       \/ StopAutomation
       \/ TimerSteps

SpecTicks == Init /\ [][NextTicks]_vars

\* The operations that ret names for a step of a tick.
TickOps == {"autoClickTick", "processAutoClickers", "processAutoProduction",
            "autoSellTick", "processAutoSell", "processMaintenance"}

\* C24: once stopAutomation() has returned (no interval is set any more), no
\* step of the auto-click, auto-production, auto-sell or maintenance tick
\* changes the store.
C24_NoTickAfterStop ==
    [][(intervals = {} /\ ops' = ops + 1 /\ ret'.op \in TickOps)
          => gameState' = gameState]_vars

\* ------------------------------------------------ temporary multipliers
\* The characters of a sequence as one string.
RECURSIVE Join(_)
Join(chars) == IF chars = << >> THEN "" ELSE Head(chars) \o Join(Tail(chars))

\* `temp_${Date.now()}`
tempMultiplierId(time) == "temp_" \o Join(toString(time))

\* ProductionService.applyTemporaryMultiplier(multiplier, duration): the
\* multiplier goes into the multipliers of the store under the id made from
\* the clock, and a timeout is armed that removes that id.  timeouts keeps,
\* in the order they were armed, the id each callback closes over, the
\* multiplier it was armed for and the time it is due.
ApplyTemporaryMultiplier(multiplier, duration) ==
    LET id == tempMultiplierId(now)
        multipliers == gameState.production.multipliers
        updatedMultipliers ==
            [k \in DOMAIN multipliers \cup {id} |->
                IF k = id THEN multiplier ELSE multipliers[k]]
    IN  /\ now + duration <= StartTime + MaxElapsed
        /\ gameState' = updateProduction(gameState, [multipliers |-> updatedMultipliers])
        /\ timeouts' = Append(timeouts, [id |-> id, multiplier |-> multiplier,
                                         due |-> now + duration])
        /\ gameEvents' = emitEvent(gameEvents, Event("multiplier_applied", ""))
        /\ ret' = [NoRet EXCEPT !.prev = ret.op, !.op = "applyTemporaryMultiplier",
                                !.id = id, !.amount = multiplier]
        /\ ops' = ops + 1
        /\ UNCHANGED <<serviceVars, historyVars, now, recentTrades, storageVars,
                       intervals, ticks>>

\* ProductionService.removeMultiplier(multiplierId)
removeMultiplier(state, multiplierId) ==
    LET multipliers == state.production.multipliers
    IN  updateProduction(state,
            [multipliers |-> [k \in DOMAIN multipliers \ {multiplierId} |->
                                 multipliers[k]]])

\* The i-th timeout fires, not before it is due: removeMultiplier(id).
MultiplierTimeout(i) ==
    /\ i \in DOMAIN timeouts
    /\ timeouts[i].due <= now
    /\ gameState' = removeMultiplier(gameState, timeouts[i].id)
    /\ timeouts' = [j \in 1..(Len(timeouts) - 1) |->
                       IF j < i THEN timeouts[j] ELSE timeouts[j + 1]]
    /\ ret' = [NoRet EXCEPT !.prev = ret.op, !.op = "removeMultiplier",
                            !.id = timeouts[i].id]
    /\ UNCHANGED <<serviceVars, historyVars, now, ops, recentTrades, gameEvents,
                   storageVars, intervals, ticks>>

\* Multipliers of 2 and 3, for half a second and for a second.
TemporaryMultipliers == {200, 300}
Durations == {500, 1000}

Timeouts == \E i \in 1..MaxBoostOps : MultiplierTimeout(i)

NextBoost ==
    \/ ops < MaxBoostOps /\
          \E multiplier \in TemporaryMultipliers, duration \in Durations :
              ApplyTemporaryMultiplier(multiplier, duration)
    \/ ops < MaxBoostOps /\ Produce(1)
    \/ AdvanceClock(500)
    \/ Timeouts

\* Time goes on and an armed timeout that is due fires.
SpecBoost ==
    Init /\ [][NextBoost]_vars /\ WF_vars(AdvanceClock(500)) /\ WF_vars(Timeouts)

\* A multiplier is in effect: it is in the multipliers of the store, under
\* the id the timeout was armed for, with the value it was applied with.
InEffect(timeout) ==
    /\ timeout.id \in DOMAIN gameState.production.multipliers
    /\ gameState.production.multipliers[timeout.id] = timeout.multiplier

\* The times of the clock in a run.
ApplyTimes == { StartTime + 500 * k : k \in 0..(MaxElapsed \div 500) }

\* C25: every temporary multiplier applied is in effect until its own
\* duration has elapsed, also when another one was applied after it; the
\* timeout that fires takes its id out of the multipliers; and every
\* temporary multiplier is eventually out of the multipliers, so that produce
\* multiplies without it.
C25_TemporaryMultipliers ==
    /\ [](\A i \in DOMAIN timeouts : now < timeouts[i].due => InEffect(timeouts[i]))
    /\ [][ret'.op = "removeMultiplier" /\ timeouts' # timeouts
             => ret'.id \notin DOMAIN gameState'.production.multipliers]_vars
    /\ \A time \in ApplyTimes :
          (tempMultiplierId(time) \in DOMAIN gameState.production.multipliers)
              ~> (tempMultiplierId(time) \notin DOMAIN gameState.production.multipliers)

\* ------------------------------------------------- SafeBigInt, alone
\* The operands: 0, small numbers, the halves of MAX_SAFE on either side of
\* the point where doubling passes MAX_SAFE, and MAX_SAFE and its neighbour.
Operands == {0, 1, 2, 3, 7, 100, 1000, MAX_SAFE \div 2, (MAX_SAFE + 1) \div 2,
             MAX_SAFE - 1, MAX_SAFE}

Calculated(op, a, b, result) ==
    /\ ret' = [NoRet EXCEPT !.prev = ret.op, !.op = op,
                            !.data = <<[a |-> a, b |-> b, result |-> result]>>]
    /\ ops' = ops + 1
    /\ UNCHANGED <<gameState, serviceVars, historyVars, now, recentTrades,
                   gameEvents, storageVars, timerVars>>

Add(a, b) == Calculated("add", a, b, SafeBigInt_add(a, b))
Subtract(a, b) == Calculated("subtract", a, b, SafeBigInt_subtract(a, b))
Divide(a, b) == Calculated("divide", a, b, SafeBigInt_divide(a, b))
\* The products formed have a factor of at most MaxFactor.
Multiply(a, b) ==
    /\ a <= MaxFactor \/ b <= MaxFactor
    /\ Calculated("multiply", a, b, SafeBigInt_multiply(a, b))

NextNumbers ==
    /\ ops < MaxNumberOps
    /\ \E a \in Operands, b \in Operands :
          Add(a, b) \/ Subtract(a, b) \/ Multiply(a, b) \/ Divide(a, b)

SpecNumbers == Init /\ [][NextNumbers]_vars

\* C26: for operands in [0, MAX_SAFE], add and multiply give the smaller of
\* the exact result and MAX_SAFE, subtract gives the larger of a - b and 0,
\* divide by 0 gives 0, and every result is in [0, MAX_SAFE].
C26_ClampedArithmetic ==
    ret.op \in {"add", "subtract", "multiply", "divide"} =>
        LET a == ret.data[1].a
            b == ret.data[1].b
            result == ret.data[1].result
        IN  /\ ret.op = "add" => result = Min2(a + b, MAX_SAFE)
            /\ ret.op = "multiply" => result = Min2(a * b, MAX_SAFE)
            /\ ret.op = "subtract" => result = Max2(a - b, 0)
            /\ (ret.op = "divide" /\ b = 0) => result = 0
            /\ result >= 0 /\ result <= MAX_SAFE

\* A product above MAX_SAFE was cut to it, after a sum that was.
C26_Witness ==
    /\ ret.op = "multiply" /\ ret.prev = "add"
    /\ ret.data[1].a * ret.data[1].b > MAX_SAFE
    /\ ret.data[1].result = MAX_SAFE

\* ------------------------------------------------------- the market
\* Saved games with matchsticks to sell, at a price of 1, of 2.5, of 0.11
\* and at the floor of 0.1.
MarketStates ==
    { [createInitialGameState EXCEPT
          !.resources.matchsticks = 4000, !.production.totalProduced = 4000,
          !.market.currentPrice = price] : price \in {100, 250, 11, 10} }

\* Amounts up to the impact threshold of 1000, above it, and above the
\* holdings.
MarketAmounts == {1, 250, 1000, 1001, 3000, 5000}

NextMarket ==
    /\ ops < MaxMarketOps
    /\ \/ \E data \in MarketStates : Load(data)
       \/ \E amount \in MarketAmounts : Sell(amount)
       \/ Produce(100)

SpecMarket == Init /\ [][NextMarket]_vars

\* C27: after a successful sellMatchsticks(amount) the current price is at
\* least 95% of the price before the sale (to the cent the model rounds to),
\* and not below 0.1.
C27_HaircutAtMostFivePercent ==
    [][(Called("sell") /\ ret'.ok) =>
          /\ 100 * gameState'.market.currentPrice + 50
                 >= 95 * gameState.market.currentPrice
          /\ gameState'.market.currentPrice >= 10]_vars

\* --------------------------------------------- facility requirements
\* The total production each facility is described to require.
RequiredProduction ==
    [basic_factory |-> 5000, advanced_factory |-> 50000, mega_plant |-> 500000]

\* C28: purchaseFacility(id) of a facility of the catalog, called while
\* production.totalProduced is below the total production the facility
\* requires, fails with the error of unmet requirements.
C28_FacilityNeedsProduction ==
    [][(Called("purchaseFacility") /\ ret'.id \in FacilityIds
          /\ gameState.production.totalProduced < RequiredProduction[ret'.id])
       => (~ret'.ok /\ ret'.error = "Unlock requirements not met")]_vars

\* ----------------------------------------------------- maintenance
\* Saved games with the money for a basic factory, and for a mega plant and
\* little more; the achievements a purchase unlocks pay for some intervals
\* of upkeep.
MaintenanceStates ==
    { [createInitialGameState EXCEPT
          !.resources.money = 51000, !.production.totalProduced = 5000],
      [createInitialGameState EXCEPT
          !.resources.money = 1545000, !.production.totalProduced = 5000] }

\* A game is loaded and facilities are bought; then the maintenance timer
\* goes on firing.
NextMaintenance ==
    \/ ops = 0 /\ \E data \in MaintenanceStates : Load(data)
    \/ ops < MaxPurchases /\
          \E facilityId \in {"basic_factory", "mega_plant"} : PurchaseFacility(facilityId)
    \/ ops < MaxMaintenanceOps /\ MaintenanceTick

SpecMaintenance == Init /\ [][NextMaintenance]_vars

\* The upkeep of five seconds, in cents: 2, 8 and 30 a second for each
\* basic factory, advanced line and mega plant owned.
Upkeep ==
    100 * 5 * (2 * facilityConfigs["basic_factory"].owned
               + 8 * facilityConfigs["advanced_factory"].owned
               + 30 * facilityConfigs["mega_plant"].owned)

MaintenanceEvents ==
    { i \in DOMAIN gameEvents : gameEvents[i].type = "maintenance_required" }

\* C29: a maintenance tick with money >= the upkeep takes exactly the upkeep
\* and changes no efficiency and emits nothing; otherwise it leaves the money,
\* lowers every facility's efficiency by 0.05 but not below 0.1, and emits a
\* maintenance event.  Money does not become negative through the tick and
\* every efficiency is in [0.1, 1].
C29_MaintenanceTick ==
    /\ [][Called("processMaintenance") =>
            /\ gameState.resources.money >= Upkeep =>
                  /\ gameState'.resources.money = gameState.resources.money - Upkeep
                  /\ facilityConfigs' = facilityConfigs
                  /\ gameEvents' = gameEvents
            /\ gameState.resources.money < Upkeep =>
                  /\ gameState'.resources.money = gameState.resources.money
                  /\ \A id \in FacilityIds :
                        /\ facilityConfigs'[id].efficiency =
                               Max2(10, facilityConfigs[id].efficiency - 5)
                        /\ facilityConfigs'[id].owned = facilityConfigs[id].owned
                  /\ Cardinality(MaintenanceEvents') = Cardinality(MaintenanceEvents) + 1
                  /\ gameEvents'[1].type = "maintenance_required"
            /\ gameState.resources.money >= 0 => gameState'.resources.money >= 0
            /\ [gameState' EXCEPT !.resources.money = 0]
                   = [gameState EXCEPT !.resources.money = 0]]_vars
    /\ [](\A id \in FacilityIds : facilityConfigs[id].efficiency \in 10..100)

\* The upkeep of a mega plant was paid, then it was unaffordable for so long
\* that the efficiencies came to the floor and a further tick left them there.
C29_Witness ==
    /\ ret.op = "processMaintenance" /\ ~ret.ok
    /\ Cardinality(MaintenanceEvents) >= 19
    /\ \A id \in FacilityIds : facilityConfigs[id].efficiency = 10
    /\ gameState.resources.money < Upkeep
    /\ facilityConfigs["mega_plant"].owned = 1

\* --------------------------------------------------- the auto-sell tick
\* C30: the auto-sell tick sells only while auto-sell is enabled, the
\* holdings are at least the threshold and the current price is at least
\* minPrice, and then it sells min(floor(holdings * percentage / 100),
\* maxPerSecond); a step of the tick that is not a sale changes nothing.
C30_AutoSellTick ==
    [][(ops' = ops + 1 /\ ret'.op \in {"autoSellTick", "processAutoSell"}) =>
          LET autoSellSettings == gameState.automation.autoSellSettings
              holdings == gameState.resources.matchsticks
          IN  IF ret'.op = "processAutoSell" /\ ret'.ok
              THEN /\ autoSellSettings.enabled /\ gameState.market.autoSellEnabled
                   /\ holdings >= autoSellSettings.threshold
                   /\ gameState.market.currentPrice >= autoSellSettings.minPrice
                   /\ ret'.amount = Min2((holdings * autoSellSettings.percentage) \div 100,
                                         autoSellSettings.maxPerSecond)
                   /\ gameState'.resources.matchsticks = holdings - ret'.amount
              ELSE gameState' = gameState]_vars

\* ------------------------------------------- price and condition ticks
\* MarketService.marketConditions: the multiplier and the probability of each
\* condition, in hundredths.
marketConditions == <<
    [id |-> "recession",     name |-> "Economic Recession",
     priceMultiplier |-> 70,  probability |-> 5],
    [id |-> "boom",          name |-> "Economic Boom",
     priceMultiplier |-> 140, probability |-> 8],
    [id |-> "winter_season", name |-> "Winter Season",
     priceMultiplier |-> 120, probability |-> 12],
    [id |-> "fire_ban",      name |-> "Fire Safety Restrictions",
     priceMultiplier |-> 60,  probability |-> 3],
    [id |-> "festival",      name |-> "Festival Season",
     priceMultiplier |-> 130, probability |-> 10] >>

maxPriceHistory == 100

Abs(x) == IF x < 0 THEN -x ELSE x

\* A history that is never cut.
keepRecentHistoryUncut(history) == history

\* if (updatedHistory.length > this.maxPriceHistory) updatedHistory.shift()
keepRecentHistory(history) ==
    IF Len(history) > maxPriceHistory THEN Tail(history) ELSE history

\* updateMarketPrice, for a randomFactor in hundredths of [-1, 1): the new
\* price max(0.1, currentPrice + currentPrice * volatility * randomFactor
\* + (basePrice * conditionMultiplier - currentPrice) * 0.1), to the cent,
\* where volatility is 0.02, times 1 + |conditionMultiplier - 1| under a
\* condition; and the history with the new price appended.
updateMarketPrice(state, randomFactor, time) ==
    LET currentPrice == state.market.currentPrice
        basePrice    == state.market.basePrice
        condition    == state.market.condition
        conditionMultiplier ==
            IF condition # << >> /\ condition[1].priceMultiplier # 0
            THEN condition[1].priceMultiplier ELSE 100
        volatility   == IF condition # << >>
                        THEN 2 * (100 + Abs(conditionMultiplier - 100))
                        ELSE 2 * 100
        millionths   == currentPrice * 1000000
                        + currentPrice * volatility * randomFactor
                        + (basePrice * conditionMultiplier - 100 * currentPrice) * 1000
        newPrice     == Max2(10, (2 * millionths + 1000000) \div 2000000)
        updatedHistory ==
            keepRecentHistory(Append(state.market.priceHistory,
                                     [timestamp |-> time, price |-> newPrice]))
    IN  updateMarket(state, [currentPrice |-> newPrice,
                             priceHistory |-> updatedHistory])

\* The price timer fires.
PriceTick(randomFactor) ==
    /\ gameState' = updateMarketPrice(gameState, randomFactor, now)
    /\ gameEvents' = emitEvent(gameEvents, Event("price_change", ""))
    /\ ret' = [NoRet EXCEPT !.prev = ret.op, !.op = "updateMarketPrice",
                            !.amount = randomFactor]
    /\ ops' = ops + 1
    /\ UNCHANGED <<serviceVars, historyVars, now, recentTrades, storageVars,
                   timerVars>>

\* A check whose loop does not break at the first condition it applies, so
\* that the last one applied stays.
checkForMarketConditionsNoBreak(state, draws) ==
    IF state.market.condition # << >>
    THEN IF draws[1] < 10
         THEN [state |-> updateMarket(state, [condition |-> << >>]),
               drawn |-> <<draws[1]>>, changed |-> TRUE]
         ELSE [state |-> state, drawn |-> <<draws[1]>>, changed |-> FALSE]
    ELSE LET hits == { i \in DOMAIN marketConditions :
                          draws[i] < marketConditions[i].probability }
         IN  IF hits = {}
             THEN [state |-> state, drawn |-> draws, changed |-> FALSE]
             ELSE LET last   == CHOOSE i \in hits : \A j \in hits : i >= j
                      config == marketConditions[last]
                  IN  [state |-> updateMarket(state,
                          [condition |-> <<[priceMultiplier |-> config.priceMultiplier,
                                            description |-> config.name]>>]),
                       drawn |-> draws, changed |-> TRUE]

\* checkForMarketConditions, for the values Math.random() returns, in
\* hundredths: draws[1] decides the expiry of an active condition; with no
\* condition, draws[i] is the draw for the i-th condition of the catalog, as
\* far as the loop gets.  Yields the state and the draws made.
checkForMarketConditions(state, draws) ==
    IF state.market.condition # << >>
    THEN IF draws[1] < 10
         THEN [state |-> updateMarket(state, [condition |-> << >>]),
               drawn |-> <<draws[1]>>, changed |-> TRUE]
         ELSE [state |-> state, drawn |-> <<draws[1]>>, changed |-> FALSE]
    ELSE LET hits == { i \in DOMAIN marketConditions :
                          draws[i] < marketConditions[i].probability }
         IN  IF hits = {}
             THEN [state |-> state, drawn |-> draws, changed |-> FALSE]
             ELSE LET first  == CHOOSE i \in hits : \A j \in hits : i <= j
                      config == marketConditions[first]
                  IN  [state |-> updateMarket(state,
                          [condition |-> <<[priceMultiplier |-> config.priceMultiplier,
                                            description |-> config.name]>>]),
                       drawn |-> SubSeq(draws, 1, first), changed |-> TRUE]

\* The condition timer fires.
ConditionTick(draws) ==
    LET r == checkForMarketConditions(gameState, draws)
    IN  /\ gameState' = r.state
        /\ gameEvents' = IF r.changed
                         THEN emitEvent(gameEvents, Event("condition_change", ""))
                         ELSE gameEvents
        /\ ret' = [NoRet EXCEPT !.prev = ret.op, !.op = "checkForMarketConditions",
                                !.ok = r.changed, !.data = r.drawn]
        /\ ops' = ops + 1
        /\ UNCHANGED <<serviceVars, historyVars, now, recentTrades, storageVars,
                       timerVars>>

\* Math.random() - 0.5, doubled: the ends and the middle of [-1, 1).
RandomFactors == {-100, 0, 99}
\* Values of Math.random(): below every probability, below those of the
\* winter season and the festival only, and above all.
Draws == {2, 9, 50}

\* A saved game after 99 price ticks at a steady price, before StartTime;
\* and one sold down to a price of 0.1.
PriceStates ==
    { [createInitialGameState EXCEPT
          !.market.priceHistory =
              [i \in 1..99 |-> [timestamp |-> 50 * i, price |-> 100]]],
      [createInitialGameState EXCEPT
          !.resources.matchsticks = 2000, !.market.currentPrice = 10] }

NextPrices ==
    \/ AdvanceClock(MaxElapsed)
    \/ /\ ops < MaxPriceOps
       /\ \/ ops = 0 /\ \E data \in PriceStates : Load(data)
          \/ \E randomFactor \in RandomFactors : PriceTick(randomFactor)
          \/ \E draws \in [DOMAIN marketConditions -> Draws] : ConditionTick(draws)
          \/ Sell(1000)

SpecPrices == Init /\ [][NextPrices]_vars

\* C31: after every price tick the current price is at least 0.1, the price
\* history has at most 100 entries in the order of their times, and the tick
\* has appended its entry, dropping the oldest one when that made 101.
C31_PriceTick ==
    [][Called("updateMarketPrice") =>
          LET history == gameState.market.priceHistory
              updated == gameState'.market.priceHistory
              entry   == [timestamp |-> now, price |-> gameState'.market.currentPrice]
          IN  /\ gameState'.market.currentPrice >= 10
              /\ Len(updated) <= 100
              /\ \A i, j \in DOMAIN updated :
                    i < j => updated[i].timestamp <= updated[j].timestamp
              /\ updated = IF Len(history) >= 100
                           THEN Append(Tail(history), entry)
                           ELSE Append(history, entry)]_vars

\* The 101st entry was appended and the oldest dropped.
C31_Witness ==
    /\ ret.op = "updateMarketPrice" /\ ret.prev = "updateMarketPrice"
    /\ Len(gameState.market.priceHistory) = 100
    /\ gameState.market.priceHistory[1].timestamp = 100
    /\ gameState.market.priceHistory[100].timestamp = now
    /\ gameState.market.currentPrice # 100

\* The condition the check applies for the draws it made: that of the first
\* condition of the catalog whose draw is below its probability, none when
\* no draw is.
Applied(drawn) ==
    LET hits == { i \in DOMAIN drawn : drawn[i] < marketConditions[i].probability }
    IN  IF hits = {} THEN << >>
        ELSE LET first == CHOOSE i \in hits : \A j \in hits : i <= j
             IN  <<[priceMultiplier |-> marketConditions[first].priceMultiplier,
                    description |-> marketConditions[first].name]>>

\* C32: there is at most one condition; a condition tick that finds one
\* leaves it or clears it; a tick that finds none applies the first condition
\* of the catalog whose draw succeeds, having drawn for no later one, or none;
\* and the tick changes nothing else.
C32_ConditionTick ==
    /\ [](Len(gameState.market.condition) <= 1)
    /\ [][Called("checkForMarketConditions") =>
            /\ gameState.market.condition # << >> =>
                  gameState'.market.condition \in {gameState.market.condition, << >>}
            /\ gameState.market.condition = << >> =>
                  /\ gameState'.market.condition = Applied(ret'.data)
                  /\ \A i \in DOMAIN ret'.data :
                        i < Len(ret'.data) =>
                            ~(ret'.data[i] < marketConditions[i].probability)
            /\ [gameState' EXCEPT !.market.condition = << >>]
                   = [gameState EXCEPT !.market.condition = << >>]]_vars

\* The initial condition was cleared, and the next tick drew above the
\* probabilities of the recession and the boom and applied the winter season.
C32_Witness ==
    /\ ret.op = "checkForMarketConditions" /\ ret.prev = "checkForMarketConditions"
    /\ ret.data = <<9, 9, 9>>
    /\ gameState.market.condition =
           <<[priceMultiplier |-> 120, description |-> "Winter Season"]>>

\* ------------------------------------------------- achievement progress
MaxProgressOps == 3

\* AchievementService.calculateProgress, in hundredths rounded down: a
\* quotient below 1 stays below 100.
calculateProgress(achievement, state) ==
    CASE achievement.type = "resource_total" ->
           IF achievement.stat = "matchsticks"
           THEN IF achievement.value > 0
                THEN Min2((state.production.totalProduced * 100) \div achievement.value, 100)
                ELSE 0
           ELSE 0
      [] achievement.type = "stat_threshold" ->
           CASE achievement.stat = "totalSold" ->
                  IF achievement.value > 0
                  THEN Min2((state.market.totalSold * 100) \div achievement.value, 100)
                  ELSE 0
             [] achievement.stat = "totalRevenue" ->
                  IF achievement.value > 0
                  THEN Min2((state.market.totalRevenue * 100) \div achievement.value, 100)
                  ELSE 0
             [] achievement.stat = "totalAutomationSpent" ->
                  IF achievement.value > 0
                  THEN Min2((state.automation.totalMoneySpent * 100) \div achievement.value,
                            100)
                  ELSE 0
             [] OTHER -> 0
      [] OTHER -> IF isAchievementMet(achievement, state) THEN 100 ELSE 0

\* AchievementService.getAchievementProgress: nothing for an unknown id.
getAchievementProgress(state, flags, id) ==
    IF id \notin AchievementIds THEN << >>
    ELSE LET achievement == CHOOSE a \in Range(achievementDefs) : a.id = id
         IN  IF flags[id]
             THEN <<[achievementId |-> id, progress |-> 100, isComplete |-> TRUE]>>
             ELSE <<[achievementId |-> id,
                     progress |-> calculateProgress(achievement, state),
                     isComplete |-> FALSE]>>

GetAchievementProgress(id) ==
    /\ ret' = [NoRet EXCEPT !.prev = ret.op, !.op = "getAchievementProgress", !.id = id,
                            !.data = getAchievementProgress(gameState, achievements, id)]
    /\ ops' = ops + 1
    /\ UNCHANGED <<gameState, serviceVars, historyVars, now, recentTrades, gameEvents,
                   storageVars, timerVars>>

\* Saved games: one half way to first_hundred and to merchant_apprentice, and
\* one of the automation phase that holds ten auto-clicker levels and has
\* spent 500.00 on automation.
ProgressStates ==
    { [createInitialGameState EXCEPT
          !.resources.matchsticks = 50, !.production.totalProduced = 50,
          !.market.totalRevenue = 5000],
      [createInitialGameState EXCEPT
          !.resources.matchsticks = 1000, !.production.totalProduced = 1000,
          !.automation.autoClickers = <<Clicker("basic_clicker", 7),
                                        Clicker("fast_clicker", 3)>>,
          !.automation.totalMoneySpent = 50000,
          !.progression.currentPhase = "automation"] }

ProgressIds == AchievementIds \cup {"non_existent"}

NextProgress ==
    \/ AdvanceClock(MaxElapsed)
    \/ ops < MaxProgressOps /\
         \/ \E data \in ProgressStates : Load(data)
         \/ \E clickCount \in {1, 100} : Produce(clickCount)
         \/ Sell(50)
         \/ CheckAll
         \/ \E id \in ProgressIds : GetAchievementProgress(id)

SpecProgress == Init /\ [][NextProgress]_vars

\* C33: the progress of an unlocked rule is 1; that of a locked rule lies in
\* [0, 1] and is 1 exactly when the rule's requirement is met by the state.
C33_Progress ==
    (ret.op = "getAchievementProgress" /\ ret.data # << >>) =>
        LET achievement == CHOOSE a \in Range(achievementDefs) : a.id = ret.id
            progress    == ret.data[1].progress
        IN  IF achievements[ret.id] THEN progress = 100
            ELSE /\ progress \in 0..100
                 /\ progress = 100 <=> isAchievementMet(achievement, gameState)

\* ---------------------------------------------------- updateResources
MaxResourceOps == 3

\* gameActions.updateResources.  The spread copies every field of updates;
\* matchsticks is then written again: the value given when it is truthy (0n
\* is not) and safe, the current value otherwise.
updateResources(state, updates) ==
    [state EXCEPT !.resources =
        [k \in ResourceFields |->
            IF k = "matchsticks"
            THEN IF k \in DOMAIN updates /\ updates.matchsticks # 0
                 THEN IF SafeBigInt_isSafe(updates.matchsticks)
                      THEN updates.matchsticks
                      ELSE state.resources.matchsticks
                 ELSE state.resources.matchsticks
            ELSE IF k \in DOMAIN updates THEN updates[k] ELSE state.resources[k]]]

UpdateResources(updates) ==
    /\ gameState' = updateResources(gameState, updates)
    /\ ret' = [NoRet EXCEPT !.prev = ret.op, !.op = "updateResources",
                            !.data = <<updates>>]
    /\ ops' = ops + 1
    /\ UNCHANGED <<serviceVars, historyVars, now, recentTrades, gameEvents,
                   storageVars, timerVars>>

\* updateResources({matchsticks: 'invalid' as any, ...}): the string is
\* truthy, and SafeBigInt.isSafe compares it with a bigint, which is false for
\* a string that is no number, so that matchsticks keeps its value.
UpdateResourcesInvalid(updates) ==
    /\ gameState' = updateResources(gameState,
                        [k \in DOMAIN updates \ {"matchsticks"} |-> updates[k]])
    /\ ret' = [NoRet EXCEPT !.prev = ret.op, !.op = "updateResources",
                            !.id = "invalid",
                            !.data = <<[k \in DOMAIN updates \ {"matchsticks"} |->
                                           updates[k]]>>]
    /\ ops' = ops + 1
    /\ UNCHANGED <<serviceVars, historyVars, now, recentTrades, gameEvents,
                   storageVars, timerVars>>

ResourceUpdates ==
    { [matchsticks |-> 200, money |-> 7500],
      [matchsticks |-> 0],
      [matchsticks |-> 0, wood |-> 5],
      [matchsticks |-> MAX_SAFE, reputation |-> 3],
      [matchsticks |-> MAX_SAFE + 1, money |-> 100],
      [matchsticks |-> -1],
      [money |-> 0, wood |-> 2] }

NextResources ==
    /\ ops < MaxResourceOps
    /\ \/ \E updates \in ResourceUpdates : UpdateResources(updates)
       \/ \E updates \in ResourceUpdates : UpdateResourcesInvalid(updates)
       \/ Produce(100)

SpecResources == Init /\ [][NextResources]_vars

\* C34: updateResources(u) sets each field present in u to the value given
\* and leaves the others as they were, updateResources({matchsticks: 0n})
\* included; a matchsticks outside [0, MAX], or one that is not a big integer,
\* leaves matchsticks as it was.
C34_UpdateResources ==
    [][Called("updateResources") =>
        LET u == ret'.data[1] IN
        \A k \in ResourceFields :
            gameState'.resources[k] =
                IF k \in DOMAIN u /\ (k = "matchsticks" => SafeBigInt_isSafe(u[k]))
                THEN u[k]
                ELSE gameState.resources[k]]_vars

\* ------------------------------------------------------ conservation
MaxConserveOps == 5

\* From the default state: manual production, sales, the purchases and the
\* auto-sell settings that give the automation ticks something to do, and the
\* ticks.
NextConserve ==
    /\ ops < MaxConserveOps
    /\ \/ \E clickCount \in {1, 100, 6000} : Produce(clickCount)
       \/ \E amount \in {1, 5000} : Sell(amount)
       \/ PurchaseAutoClicker("basic_clicker")
       \/ PurchaseFacility("basic_factory")
       \/ ConfigureAutoSell([threshold |-> 50, percentage |-> 50, minPrice |-> 50,
                             maxPerSecond |-> 1000, enabled |-> TRUE])
       \/ TimerSteps

SpecConserve == Init /\ [][NextConserve]_vars

\* C35: while every count is below MAX, the matchsticks produced are those
\* held plus those sold: totalProduced = matchsticks + totalSold.
C35_Conservation ==
    (/\ gameState.production.totalProduced < MAX_SAFE
     /\ gameState.resources.matchsticks < MAX_SAFE
     /\ gameState.market.totalSold < MAX_SAFE) =>
        gameState.production.totalProduced =
            gameState.resources.matchsticks + gameState.market.totalSold

\* ------------------------------------------- the clickers' statistics
\* C36: when an auto-click tick ends, every clicker of the list the tick read
\* has its totalClicks raised by the clicks it made in the tick (none for an
\* inactive one) and has its level as before.
C36_EveryClickerCounted ==
    [][(Called("processAutoClickers") /\ "autoClick" \notin DOMAIN ticks') =>
        LET start == ticks["autoClick"].currentState.automation.autoClickers
            after == gameState'.automation.autoClickers
        IN  /\ Len(after) = Len(start)
            /\ \A i \in DOMAIN start :
                  /\ after[i].id = start[i].id
                  /\ after[i].level = start[i].level
                  /\ after[i].totalClicks =
                         start[i].totalClicks +
                             (IF start[i].isActive THEN actualClicks(start[i]) ELSE 0)]_vars

\* C37: a write of an auto-click tick keeps what a purchase completed while
\* the tick was suspended put into the store: every clicker the store holds
\* before the write is held after it, at a level no lower.
C37_PurchaseKept ==
    [][Called("processAutoClickers") =>
        LET before == gameState.automation.autoClickers
            after  == gameState'.automation.autoClickers
        IN  \A i \in DOMAIN before :
                \E j \in DOMAIN after :
                    after[j].id = before[i].id /\ after[j].level >= before[i].level]_vars

\* ------------------------------------------------ GameManager's saves
MaxManagerSaves == 6
MaxRaceOps == 4
MaxAutoSaveOps == 8

\* GameManager.saveGame(name) up to the first await of the storage service:
\* the state is read from the store and given to
\* gameStorageService.saveGame(currentState, saveName), without a third
\* argument, so that isAutoSave is false.
ManagerStartSave(caller, name) ==
    /\ caller \notin DOMAIN saving
    /\ saveCount < MaxManagerSaves
    /\ saveCount' = saveCount + 1
    /\ saving' = WithCall(saving, caller,
          [pc |-> "checksum", id |-> saveCount + 1,
           gameState |-> gameState,
           name |-> <<name>>,
           isAutoSave |-> FALSE,
           toDelete |-> {}, rotated |-> {}])
    /\ UNCHANGED <<timerVars, gameState, serviceVars, historyVars, now, ops, ret,
                   recentTrades, gameEvents, db, saved>>

\* The storage service has returned the id: GameManager.saveGame emits
\* game_saved and returns true.  ret holds the state that was given to the
\* storage service.
ManagerSaveDone(caller) ==
    /\ caller \in DOMAIN saving
    /\ saving[caller].pc = "track"
    /\ saving' = WithoutCall(saving, caller)
    /\ gameEvents' = emitEvent(gameEvents, Event("game_saved", saving[caller].id))
    /\ ret' = [NoRet EXCEPT !.prev = ret.op, !.op = "managerSaveGame",
                            !.saveId = saving[caller].id,
                            !.isAutoSave = saving[caller].isAutoSave,
                            !.data = <<saving[caller].gameState>>]
    /\ ops' = ops + 1
    /\ UNCHANGED <<timerVars, gameState, serviceVars, historyVars, now,
                   recentTrades, db, saveCount, saved>>

\* The games loaded while a save is in flight.
RaceStates ==
    { LargeState,
      [resources |-> [matchsticks |-> 500, money |-> 10000]] }

\* A save of the store's state with loads, resets, production and sales
\* between its steps, and loads of the records.
NextRace ==
    \/ ops < MaxRaceOps /\ ManagerStartSave("a call", "slot 1")
    \/ SavePut("a call")
    \/ ManagerSaveDone("a call")
    \/ /\ ops < MaxRaceOps
       /\ \/ \E data \in RaceStates : Load(data)
          \/ Reset
          \/ Produce(1)
          \/ Sell(1)
          \/ \E saveId \in {r.id : r \in db.saves} : LoadGame(saveId)

SpecRace == Init /\ [][NextRace]_vars

NextAutoSave ==
    \/ AdvanceClock(MaxElapsed)
    \/ ManagerStartSave("the autosave timer", "auto-save")
    \/ SavePut("the autosave timer")
    \/ ManagerSaveDone("the autosave timer")
    \/ ops < MaxAutoSaveOps /\ Produce(1)

SpecAutoSave == Init /\ [][NextAutoSave]_vars

\* C39: the saves table never holds more than 5 records written by the
\* autosave timer.
C39_TimerSavesRotated ==
    Cardinality({r \in db.saves : r.name = <<"auto-save">>}) <= 5

\* ------------------------------------------- the facilities and reset
MaxResetOps == 5

\* Games are loaded, facilities bought, the auto-production and maintenance
\* timers fire, and the store is reset.
NextReset ==
    /\ ops < MaxResetOps
    /\ \/ \E data \in MaintenanceStates : Load(data)
       \/ \E facilityId \in {"basic_factory", "mega_plant"} : PurchaseFacility(facilityId)
       \/ AutoProductionTick
       \/ MaintenanceTick
       \/ Reset

SpecReset == Init /\ [][NextReset]_vars

\* The cost of a facility's first unit, in cents.
BaseCost(facilityId) ==
    100 * facilityDefs[CHOOSE i \in DOMAIN facilityDefs :
                           facilityDefs[i].id = facilityId].cost

\* C40: after reset() every facility is owned 0 times at efficiency 1; the
\* auto-production tick that follows the reset adds nothing, and the first
\* purchase of a facility after the reset is charged the facility's base
\* cost.
C40_ResetClearsFacilities ==
    /\ [][Called("reset") =>
            \A id \in FacilityIds :
                facilityConfigs'[id] = [owned |-> 0, efficiency |-> 100]]_vars
    /\ [][(ret.op = "reset" /\ Called("processAutoProduction")) =>
            ret'.produced = 0 /\ gameState' = gameState]_vars
    /\ [][(ret.op = "load" /\ ret.prev = "reset" /\ Called("purchaseFacility")
            /\ ret'.ok) =>
            ret'.cost = BaseCost(ret'.id)]_vars

====
